---- MODULE Spec2Model ----
(***************************************************************************)
(* CropSense RAG backend: the query cache (cache.py), the per-user rate    *)
(* limiter and the answer orchestrator (gemini_service.py, main.py) and    *)
(* the batched vector store writes (vector_store.py) and the embedding     *)
(* client's retry loop (embeddings.py), similarity search and retrieval    *)
(* (vector_store.py, retriever.py) and the chunker (ingestion.py).         *)
(*                                                                         *)
(* Each component has its own specification (SpecCache, SpecRL, ...) over  *)
(* the shared variables; a component that a specification does not drive  *)
(* stays in its initial state.                                             *)
(***************************************************************************)
EXTENDS Integers, Sequences, FiniteSets, TLC

VARIABLES
    now,            \* the wall clock: time.time() / datetime.now(), in seconds
    \* ---- QueryCache (cache.py)
    cache,          \* self.cache: the OrderedDict, as the sequence of its items
    maxsize,        \* self.maxsize
    ttl_seconds,    \* self.ttl_seconds
    hits,           \* self.hits
    misses,         \* self.misses
    lastOp,         \* observation: the last cache operation and its outcome
    recency,        \* observation: the keys by their last use, oldest first
    opCount,        \* observation: the number of cache operations so far
    \* ---- rate limiter (gemini_service.py)
    rate_limits,    \* the gemini_rate_limits collection: uid -> document
    max_requests_per_hour,  \* settings.gemini_max_requests_per_hour
    rlLast,         \* observation: the last check_rate_limit call
    rlBucket,       \* observation: per uid, the calls seen in its hour bucket
    \* ---- VectorStore.upsert_chunks_batch (vector_store.py)
    vectorChunks,   \* the vectorChunks collection: chunk id -> stored content
    firestore_batch_size,   \* settings.firestore_batch_size
    up,             \* the running call: its locals, its commits so far, its outcome
    \* ---- /answer and GeminiService.generate_answer (main.py, gemini_service.py)
    gemini_cache,   \* the gemini_cache collection: cache key -> document
    req,            \* the /answer request in progress: its locals and its outcome
    answered,       \* observation: the number of /answer requests started
    \* ---- EmbeddingService.embed_batch / embed_batch_sync (embeddings.py)
    emb,            \* the running call: its locals, its provider calls and sleeps, its outcome
    \* ---- VectorStore.search and RetrieverService (vector_store.py, retriever.py)
    rtv,            \* the chunks collection read by search, and the last call with its result
    \* ---- chunk_text_intelligent (ingestion.py)
    chk,            \* the arguments of a call and, once it has run, its chunks
    \* ---- generate_chunk_id (ingestion.py)
    cid,            \* the arguments of two calls of generate_chunk_id and, once made, their ids
    \* ---- batch_ingest / ingest_single_document (batch_ingest.py)
    ing,            \* each batch_ingest run: its work list, its position, its locals and its summary
    document_status, \* the document_status collection: document id -> record
    stored,         \* the chunks written by the runs' upserts
    statusLog,      \* observation: the last write to document_status
    \* ---- check_rate_limit called by several workers (gemini_service.py)
    rlw,            \* each worker inside check_rate_limit: its position and the record it read
    rlGranted,      \* observation: per uid and hour bucket, the calls that returned True
    \* ---- upsert_chunk / upsert_chunks_batch from concurrent runs (vector_store.py)
    chunkDocs,      \* the chunks collection as the documents it holds
    writers,         \* each concurrent writer: the commits it has still to make, and those made
    collection, \* the chunks collection as delete, /query and re-ingestion see it: the set of its documents
    query_cache, \* query_cache.cache of the /query endpoint: the OrderedDict, as the sequence of its items
    qry, \* observation: the /query requests so far, each with its response
    del, \* the last call of delete_by_document_id: its arguments and its outcome
    running, \* the coroutine that the event loop's thread is executing, or LoopFree
    coro, \* the coroutines on the event loop: an embed_batch call and another request
    \* ---- steps 3 and 4 of ingest_single_document (batch_ingest.py)
    aln             \* the chunks of the call, all_embeddings, chunks_data and the counts of the upsert

cacheVars == <<cache, maxsize, ttl_seconds, hits, misses, lastOp, recency, opCount>>
rlVars == <<rate_limits, max_requests_per_hour, rlLast, rlBucket>>
upVars == <<vectorChunks, firestore_batch_size, up>>
ansVars == <<gemini_cache, req, answered>>
alnVars == <<aln>>
evlVars == <<running, coro>>
qryVars == <<collection, query_cache, qry, del>>
cuVars == <<chunkDocs, writers>>
rlcVars == <<rlw, rlGranted>>
ingVars == <<ing, document_status, stored, statusLog>>
idVars == <<cid>>
chkVars == <<chk>>
rtvVars == <<rtv>>
embVars == <<emb>>
vars == <<now, cacheVars, rlVars, upVars, ansVars, embVars, rtvVars, chkVars, idVars, ingVars, rlcVars, cuVars, qryVars, evlVars, alnVars>>

None == "None"

\* ------------------------------------------------------------------ bounds
MaxOps == 4         \* at most this many cache operations per behaviour
MaxTime == 1        \* the cache clock runs 0 .. MaxTime
MaxHour == 1        \* the rate limiter's clock runs through the hour buckets 0 .. MaxHour
MaxCalls == 3       \* at most this many check_rate_limit calls per user and hour bucket
MaxChunks == 4      \* upsert_chunks_batch is called with at most this many chunks
MaxRequests == 2    \* at most this many /answer requests per behaviour
MaxDocs == 3        \* the chunks collection read by search holds at most this many chunks
MaxIngestChunks == 2    \* a document of the ingestion runs has at most this many chunks
MaxWrites == 2      \* a concurrent writer upserts at most this many chunks
MaxParas == 3       \* a generated text item has at most this many paragraphs
MaxResults == 3     \* build_context is given at most this many results
MaxRetry == 3       \* retry_count ranges over 0 .. MaxRetry
MaxQueries == 2     \* at most this many /query requests per behaviour
MaxSteps == 2       \* the other request on the event loop has at most this many steps
MaxWait == 4        \* the event loop's clock runs 0 .. MaxWait seconds
MaxAlignChunks == 4 \* chunk_text_intelligent gives a document at most this many chunks
MaxDelay == 2       \* the /answer clock runs 0 .. MaxDelay response-cache lifetimes

\* --------------------------------------------------------- strings as data
\* A query text is a sequence of characters.
Lower(c) == CASE c = "A" -> "a" [] c = "B" -> "b" [] OTHER -> c

IsSpace(c) == c = " "

RECURSIVE LStrip(_)
LStrip(s) == IF s # << >> /\ IsSpace(Head(s)) THEN LStrip(Tail(s)) ELSE s

RECURSIVE RStrip(_)
RStrip(s) ==
    IF s # << >> /\ IsSpace(s[Len(s)]) THEN RStrip(SubSeq(s, 1, Len(s) - 1)) ELSE s

\* QueryCache._normalize_query: query.lower().strip()
NormalizeQuery(q) == RStrip(LStrip([i \in 1 .. Len(q) |-> Lower(q[i])]))

\* the order json.dumps(sort_keys=True) gives the keys of a filter dict
KeyRank(k) == CASE k = "crop" -> 1 [] k = "region" -> 2 [] OTHER -> 3

RECURSIVE InsertSorted(_, _)
InsertSorted(p, s) ==
    IF s = << >> THEN <<p>>
    ELSE IF KeyRank(p[1]) <= KeyRank(Head(s)[1]) THEN <<p>> \o s
    ELSE <<Head(s)>> \o InsertSorted(p, Tail(s))

RECURSIVE SortKeys(_)
SortKeys(f) == IF f = << >> THEN << >> ELSE InsertSorted(Head(f), SortKeys(Tail(f)))

\* json.dumps(filters or {}, sort_keys=True): a dict is the sequence of its
\* (key, value) items in insertion order; None and {} serialise alike.
FilterStr(f) == IF f = None THEN << >> ELSE SortKeys(f)

\* QueryCache._hash_key; MD5 is taken to be injective on the keys in use.
HashKey(q, f) == <<NormalizeQuery(q), FilterStr(f)>>

DictAB == << <<"crop", "maize">>, <<"region", "east">> >>
DictBA == << <<"region", "east">>, <<"crop", "maize">> >>

\* the (query, filters) arguments the cache is called with: three distinct
\* keys, two of them reachable through two different spellings
CacheArgs == {<< <<"a">>, None >>, << <<" ", "A">>, << >> >>, << <<"b">>, None >>,
              << <<"a">>, DictAB >>, << <<"A", " ">>, DictBA >>}
Values == {"v1", "v2"}
CacheSizes == {1, 2}
CacheTtls == {0, 1}

\* ------------------------------------------------------------- OrderedDict
Keys(c) == {c[i].key : i \in 1 .. Len(c)}

IndexOf(c, k) == CHOOSE i \in 1 .. Len(c) : c[i].key = k

Remove(c, k) == SelectSeq(c, LAMBDA e : e.key # k)

\* OrderedDict.move_to_end(key)
MoveToEnd(c, k) == Append(Remove(c, k), c[IndexOf(c, k)])

\* OrderedDict.popitem(last=False)
PopFirst(c) == Tail(c)

\* d[key] = entry: a present key keeps its position, a new key goes last
Assign(c, e) ==
    IF e.key \in Keys(c) THEN [c EXCEPT ![IndexOf(c, e.key)] = e] ELSE Append(c, e)

\* the reference order of use: a key that is used moves to the young end
Touch(r, k) == Append(SelectSeq(r, LAMBDA x : x # k), k)

NoOp == [kind |-> "none", key |-> None, v |-> None, t |-> 0, hit |-> FALSE,
         evicted |-> {}, sizeBefore |-> 0, present |-> FALSE, lru |-> None,
         age |-> 0, stored |-> None, missesBefore |-> 0, afterSet |-> FALSE,
         setV |-> None, setT |-> 0, afterHit |-> None]

\* ------------------------------------------------------------- QueryCache
\* QueryCache.get: the part that decides hit, miss and expiry
GetExpiredAtTtl(entry, t, ttl) == t - entry.timestamp >= ttl

GetExpiredNever(entry, t, ttl) == FALSE

GetExpired(entry, t, ttl) == t - entry.timestamp > ttl

GetCacheAfterNoMove(c, key, t, ttl) ==
    IF key \notin Keys(c) THEN c
    ELSE IF GetExpired(c[IndexOf(c, key)], t, ttl) THEN Remove(c, key)
    ELSE c

GetCacheAfter(c, key, t, ttl) ==
    IF key \notin Keys(c) THEN c
    ELSE IF GetExpired(c[IndexOf(c, key)], t, ttl) THEN Remove(c, key)
    ELSE MoveToEnd(c, key)

GetHit(c, key, t, ttl) ==
    key \in Keys(c) /\ ~GetExpired(c[IndexOf(c, key)], t, ttl)

GetResult(c, key, t, ttl) ==
    IF GetHit(c, key, t, ttl) THEN c[IndexOf(c, key)].result ELSE None

CacheGet(q, f) ==
    LET key == HashKey(q, f)
        hit == GetHit(cache, key, now, ttl_seconds)
        after == GetCacheAfter(cache, key, now, ttl_seconds)
        same == lastOp.kind = "set" /\ lastOp.key = key
    IN  /\ opCount < MaxOps
        /\ opCount' = opCount + 1
        /\ cache' = after
        /\ hits' = IF hit THEN hits + 1 ELSE hits
        /\ misses' = IF hit THEN misses ELSE misses + 1
        /\ recency' = IF hit THEN Touch(recency, key)
                      ELSE SelectSeq(recency, LAMBDA x : x \in Keys(after))
        /\ lastOp' = [NoOp EXCEPT
                        !.kind = "get", !.key = key,
                        !.v = GetResult(cache, key, now, ttl_seconds),
                        !.t = now, !.hit = hit,
                        !.evicted = Keys(cache) \ Keys(after),
                        !.sizeBefore = Len(cache),
                        !.present = key \in Keys(cache),
                        !.age = IF key \in Keys(cache)
                                THEN now - cache[IndexOf(cache, key)].timestamp
                                ELSE 0,
                        !.stored = IF key \in Keys(cache)
                                   THEN cache[IndexOf(cache, key)].result ELSE None,
                        !.missesBefore = misses,
                        !.afterSet = same,
                        !.setV = IF same THEN lastOp.v ELSE None,
                        !.setT = IF same THEN lastOp.t ELSE 0]
        /\ UNCHANGED <<now, maxsize, ttl_seconds>>
        /\ UNCHANGED rlVars
    /\ UNCHANGED upVars
    /\ UNCHANGED ansVars
        /\ UNCHANGED upVars
    /\ UNCHANGED ansVars
        /\ UNCHANGED ansVars
        /\ UNCHANGED embVars
        /\ UNCHANGED rtvVars
        /\ UNCHANGED chkVars
        /\ UNCHANGED idVars
        /\ UNCHANGED ingVars
        /\ UNCHANGED rlcVars
        /\ UNCHANGED cuVars
        /\ UNCHANGED qryVars
        /\ UNCHANGED evlVars
        /\ UNCHANGED alnVars

\* QueryCache.set: the eviction, then the insert and the move to the end
SetEvictWhenOver(c, key, size) ==
    IF Len(c) > size /\ key \notin Keys(c) THEN PopFirst(c) ELSE c

SetEvict(c, key, size) ==
    IF Len(c) >= size /\ key \notin Keys(c) THEN PopFirst(c) ELSE c

SetCacheAfterEvictLate(c, key, v, t, size) ==
    LET ins == MoveToEnd(Assign(c, [key |-> key, result |-> v, timestamp |-> t]), key)
    IN  IF Len(ins) >= size /\ key \notin Keys(c) THEN PopFirst(ins) ELSE ins

SetCacheAfter(c, key, v, t, size) ==
    MoveToEnd(Assign(SetEvict(c, key, size),
                     [key |-> key, result |-> v, timestamp |-> t]), key)

CacheSet(q, v, f) ==
    LET key == HashKey(q, f)
        after == SetCacheAfter(cache, key, v, now, maxsize)
    IN  /\ opCount < MaxOps
        /\ opCount' = opCount + 1
        /\ cache' = after
        /\ recency' = Touch(SelectSeq(recency, LAMBDA x : x \in Keys(after)), key)
        /\ lastOp' = [NoOp EXCEPT
                        !.kind = "set", !.key = key, !.v = v, !.t = now,
                        !.evicted = Keys(cache) \ Keys(after),
                        !.sizeBefore = Len(cache),
                        !.present = key \in Keys(cache),
                        !.lru = IF recency = << >> THEN None ELSE Head(recency),
                        !.afterHit = IF lastOp.kind = "get" /\ lastOp.hit
                                     THEN lastOp.key ELSE None]
        /\ UNCHANGED <<now, maxsize, ttl_seconds, hits, misses>>
        /\ UNCHANGED rlVars
    /\ UNCHANGED upVars
    /\ UNCHANGED ansVars
        /\ UNCHANGED upVars
    /\ UNCHANGED ansVars
        /\ UNCHANGED ansVars
        /\ UNCHANGED embVars
        /\ UNCHANGED rtvVars
        /\ UNCHANGED chkVars
        /\ UNCHANGED idVars
        /\ UNCHANGED ingVars
        /\ UNCHANGED rlcVars
        /\ UNCHANGED cuVars
        /\ UNCHANGED qryVars
        /\ UNCHANGED evlVars
        /\ UNCHANGED alnVars

\* QueryCache.clear
CacheClear ==
    /\ opCount < MaxOps
    /\ opCount' = opCount + 1
    /\ cache' = << >>
    /\ hits' = 0
    /\ misses' = 0
    /\ recency' = << >>
    /\ lastOp' = [NoOp EXCEPT !.kind = "clear", !.t = now,
                  !.evicted = Keys(cache), !.sizeBefore = Len(cache)]
    /\ UNCHANGED <<now, maxsize, ttl_seconds>>
    /\ UNCHANGED rlVars
    /\ UNCHANGED upVars
    /\ UNCHANGED ansVars
    /\ UNCHANGED embVars
    /\ UNCHANGED rtvVars
    /\ UNCHANGED chkVars
    /\ UNCHANGED idVars
    /\ UNCHANGED ingVars
    /\ UNCHANGED rlcVars
    /\ UNCHANGED cuVars
    /\ UNCHANGED qryVars
    /\ UNCHANGED evlVars
    /\ UNCHANGED alnVars

\* time passes between two cache operations
CacheTick ==
    /\ now < MaxTime
    /\ now' = now + 1
    /\ UNCHANGED cacheVars
    /\ UNCHANGED upVars
    /\ UNCHANGED ansVars
    /\ UNCHANGED rlVars
    /\ UNCHANGED upVars
    /\ UNCHANGED ansVars
    /\ UNCHANGED embVars
    /\ UNCHANGED rtvVars
    /\ UNCHANGED chkVars
    /\ UNCHANGED idVars
    /\ UNCHANGED ingVars
    /\ UNCHANGED rlcVars
    /\ UNCHANGED cuVars
    /\ UNCHANGED qryVars
    /\ UNCHANGED evlVars
    /\ UNCHANGED alnVars

\* QueryCache.__init__
CacheInit ==
    /\ cache = << >>
    /\ maxsize \in CacheSizes
    /\ ttl_seconds \in CacheTtls
    /\ hits = 0
    /\ misses = 0
    /\ lastOp = NoOp
    /\ recency = << >>
    /\ opCount = 0

CacheIdle ==
    /\ cache = << >>
    /\ maxsize = 1
    /\ ttl_seconds = 0
    /\ hits = 0
    /\ misses = 0
    /\ lastOp = NoOp
    /\ recency = << >>
    /\ opCount = 0

\* ------------------------------------------------------------ rate limiter
SecondsPerHour == 3600

Uids == {"system", "u1"}
UserIds == {None, "", "u1"}     \* the user_id argument: None, empty, or a name
RLLimits == {1, 2}              \* values of settings.gemini_max_requests_per_hour
StoreFaults == {"none", "read", "write"}

NoDoc == [exists |-> FALSE]

\* uid = user_id or "system"
UidOf(user_id) == IF user_id = None \/ user_id = "" THEN "system" ELSE user_id

\* current_hour = int(now.timestamp() // 3600)
HourOf(t) == t \div SecondsPerHour

OverLimitWhenAbove(requests, max) == requests > max

\* requests_this_hour >= max_requests_per_hour
OverLimit(requests, max) == requests >= max

OnStoreErrorDeny(docs) == [allowed |-> FALSE, raised |-> FALSE, docs |-> docs]

\* except Exception: log, return True (fail open)
OnStoreError(docs) == [allowed |-> TRUE, raised |-> FALSE, docs |-> docs]

RejectCounting(docs, uid, t) ==
    [allowed |-> FALSE, raised |-> FALSE,
     docs |-> [docs EXCEPT ![uid] = [@ EXCEPT !.totalRequests = @ + 1,
                                              !.lastRequestAt = t]]]

\* if requests_this_hour >= max_requests_per_hour: log, return False
Reject(docs, uid, t) == [allowed |-> FALSE, raised |-> FALSE, docs |-> docs]

\* return True after the write of the record
Allow(docs) == [allowed |-> TRUE, raised |-> FALSE, docs |-> docs]

\* check_rate_limit: the value returned and the collection afterwards; fault
\* says where the backing store raises, if it does
CheckRateLimit(docs, user_id, t, max, fault) ==
    LET uid == UidOf(user_id)
        doc == docs[uid]
        current_hour == HourOf(t)
    IN  IF fault = "read" THEN OnStoreError(docs)
        ELSE IF ~doc.exists THEN
            IF fault = "write" THEN OnStoreError(docs)
            ELSE Allow([docs EXCEPT ![uid] =
                          [exists |-> TRUE, userId |-> uid,
                           requestsThisHour |-> 1,
                           currentHour |-> current_hour,
                           totalRequests |-> 1,
                           firstRequestAt |-> t, lastRequestAt |-> t]])
        ELSE IF current_hour # doc.currentHour THEN
            IF fault = "write" THEN OnStoreError(docs)
            ELSE Allow([docs EXCEPT ![uid] =
                          [doc EXCEPT !.requestsThisHour = 1,
                                      !.currentHour = current_hour,
                                      !.totalRequests = @ + 1,
                                      !.lastRequestAt = t]])
        ELSE IF OverLimit(doc.requestsThisHour, max) THEN Reject(docs, uid, t)
        ELSE
            IF fault = "write" THEN OnStoreError(docs)
            ELSE Allow([docs EXCEPT ![uid] =
                          [doc EXCEPT !.requestsThisHour = @ + 1,
                                      !.totalRequests = @ + 1,
                                      !.lastRequestAt = t]])

\* whether the call reaches a store write (a write fault then has an effect)
ReachesWrite(docs, user_id, t, max) ==
    LET doc == docs[UidOf(user_id)]
    IN  IF ~doc.exists THEN TRUE
        ELSE IF HourOf(t) # doc.currentHour THEN TRUE
        ELSE ~OverLimit(doc.requestsThisHour, max)

\* one call of check_rate_limit, start to end
RLCheck(user_id, fault) ==
    LET uid == UidOf(user_id)
        r == CheckRateLimit(rate_limits, user_id, now, max_requests_per_hour, fault)
        b == rlBucket[uid]
        calls == IF b.hour = HourOf(now) THEN b.calls + 1 ELSE 1
        faults == (IF b.hour = HourOf(now) THEN b.faults ELSE 0)
                  + (IF fault = "none" THEN 0 ELSE 1)
    IN  /\ calls <= MaxCalls
        /\ fault = "write" => ReachesWrite(rate_limits, user_id, now, max_requests_per_hour)
        /\ rate_limits' = r.docs
        /\ rlBucket' = [rlBucket EXCEPT ![uid] =
                          [hour |-> HourOf(now), calls |-> calls, faults |-> faults]]
        /\ rlLast' = [uid |-> uid, allowed |-> r.allowed, raised |-> r.raised,
                      fault |-> fault,
                      hour |-> HourOf(now), nth |-> calls,
                      before |-> rate_limits]
        /\ UNCHANGED <<now, max_requests_per_hour>>
        /\ UNCHANGED cacheVars
        /\ UNCHANGED upVars
        /\ UNCHANGED ansVars
        /\ UNCHANGED embVars
        /\ UNCHANGED rtvVars
        /\ UNCHANGED chkVars
        /\ UNCHANGED idVars
        /\ UNCHANGED ingVars
        /\ UNCHANGED rlcVars
        /\ UNCHANGED cuVars
        /\ UNCHANGED qryVars
        /\ UNCHANGED evlVars
        /\ UNCHANGED alnVars

\* time passes: to the start of the next hour bucket
RLTick ==
    /\ HourOf(now) < MaxHour
    /\ now' = (HourOf(now) + 1) * SecondsPerHour
    /\ UNCHANGED rlVars
    /\ UNCHANGED cacheVars
    /\ UNCHANGED upVars
    /\ UNCHANGED ansVars
    /\ UNCHANGED embVars
    /\ UNCHANGED rtvVars
    /\ UNCHANGED chkVars
    /\ UNCHANGED idVars
    /\ UNCHANGED ingVars
    /\ UNCHANGED rlcVars
    /\ UNCHANGED cuVars
    /\ UNCHANGED qryVars
    /\ UNCHANGED evlVars
    /\ UNCHANGED alnVars

NoCall == [uid |-> None, allowed |-> TRUE, raised |-> FALSE, fault |-> "none", hour |-> 0, nth |-> 0,
           before |-> [u \in Uids |-> NoDoc]]

RLInit ==
    /\ rate_limits = [u \in Uids |-> NoDoc]
    /\ max_requests_per_hour \in RLLimits
    /\ rlLast = NoCall
    /\ rlBucket = [u \in Uids |-> [hour |-> 0, calls |-> 0, faults |-> 0]]

RLIdle ==
    /\ rate_limits = [u \in Uids |-> NoDoc]
    /\ max_requests_per_hour = 1
    /\ rlLast = NoCall
    /\ rlBucket = [u \in Uids |-> [hour |-> 0, calls |-> 0, faults |-> 0]]

\* ------------------------------------------------- VectorStore: batch upsert
ChunkIds == {"c1", "c2"}
BatchSizes == {1, 2, 3}         \* values of settings.firestore_batch_size

\* a chunk of chunks_data: chunk_id is None when the chunk carries no id
ChunkChoices == {[chunk_id |-> i, content |-> "new"] : i \in ChunkIds \cup {None}}

RECURSIVE SeqsUpTo(_, _)
SeqsUpTo(S, n) ==
    IF n = 0 THEN {<< >>}
    ELSE LET shorter == SeqsUpTo(S, n - 1)
         IN  shorter \cup {Append(q, x) : q \in {r \in shorter : Len(r) = n - 1}, x \in S}

\* batch.set(doc_ref, doc_data) for every write of a commit, in order
RECURSIVE ApplyWrites(_, _)
ApplyWrites(store, writes) ==
    IF writes = << >> THEN store
    ELSE ApplyWrites([store EXCEPT ![Head(writes).chunk_id] = Head(writes).content],
                     Tail(writes))

UpIdle == [pc |-> "idle", chunks_data |-> << >>, idx |-> 0, batch |-> << >>,
           batch_count |-> 0, successful |-> 0, failed |-> 0, commits |-> << >>,
           result |-> None, before |-> [i \in ChunkIds |-> None]]

BatchFullWhenOver(count, limit) == count > limit

\* batch_count >= settings.firestore_batch_size
BatchFull(count, limit) == count >= limit

OnCommitErrorSwallow(u) ==
    [u EXCEPT !.failed = @ + u.batch_count, !.batch = << >>, !.batch_count = 0]

\* except Exception: failed += batch_count; raise
OnCommitError(u) ==
    [u EXCEPT !.failed = @ + u.batch_count, !.pc = "raised", !.result = "raise"]

\* batch.commit() of the pending writes, which the store applies as a whole
\* or, when it fails, not at all; then successful += batch_count and a fresh
\* batch
Commit(u, store, ok) ==
    LET logged == [u EXCEPT !.commits = Append(@, [writes |-> u.batch, ok |-> ok])]
    IN  IF ok
        THEN [up |-> [logged EXCEPT !.successful = @ + u.batch_count,
                                    !.batch = << >>, !.batch_count = 0],
              store |-> ApplyWrites(store, u.batch)]
        ELSE [up |-> OnCommitError(logged), store |-> store]

\* the call and its first lines: an empty list returns (0, 0) at once
UpsertCall(chunks) ==
    /\ up.pc = "idle"
    /\ up' = IF chunks = << >>
             THEN [UpIdle EXCEPT !.pc = "returned", !.result = <<0, 0>>,
                                 !.before = vectorChunks]
             ELSE [UpIdle EXCEPT !.pc = "loop", !.chunks_data = chunks, !.idx = 1,
                                 !.before = vectorChunks]
    /\ UNCHANGED <<vectorChunks, firestore_batch_size>>
    /\ UNCHANGED <<now>>
    /\ UNCHANGED cacheVars
    /\ UNCHANGED rlVars
    /\ UNCHANGED ansVars
    /\ UNCHANGED embVars
    /\ UNCHANGED rtvVars
    /\ UNCHANGED chkVars
    /\ UNCHANGED idVars
    /\ UNCHANGED ingVars
    /\ UNCHANGED rlcVars
    /\ UNCHANGED cuVars
    /\ UNCHANGED qryVars
    /\ UNCHANGED evlVars
    /\ UNCHANGED alnVars

\* one iteration of the for loop; ok is the outcome of the commit it makes,
\* if it makes one
UpsertLoop(ok) ==
    /\ up.pc = "loop"
    /\ up.idx <= Len(up.chunks_data)
    /\ LET chunk_data == up.chunks_data[up.idx]
           next == [up EXCEPT !.idx = @ + 1]
           added == [next EXCEPT !.batch = Append(@, chunk_data),
                                 !.batch_count = @ + 1]
       IN  IF chunk_data.chunk_id = None
           THEN /\ ok
                /\ up' = [next EXCEPT !.failed = @ + 1]
                /\ UNCHANGED vectorChunks
           ELSE IF BatchFull(added.batch_count, firestore_batch_size)
           THEN /\ up' = Commit(added, vectorChunks, ok).up
                /\ vectorChunks' = Commit(added, vectorChunks, ok).store
           ELSE /\ ok
                /\ up' = added
                /\ UNCHANGED vectorChunks
    /\ UNCHANGED <<firestore_batch_size, now>>
    /\ UNCHANGED cacheVars
    /\ UNCHANGED rlVars
    /\ UNCHANGED ansVars
    /\ UNCHANGED embVars
    /\ UNCHANGED rtvVars
    /\ UNCHANGED chkVars
    /\ UNCHANGED idVars
    /\ UNCHANGED ingVars
    /\ UNCHANGED rlcVars
    /\ UNCHANGED cuVars
    /\ UNCHANGED qryVars
    /\ UNCHANGED evlVars
    /\ UNCHANGED alnVars

\* after the loop: commit what is pending, return (successful, failed)
UpsertFinish(ok) ==
    /\ up.pc = "loop"
    /\ up.idx > Len(up.chunks_data)
    /\ IF up.batch_count > 0
       THEN LET r == Commit(up, vectorChunks, ok)
            IN  /\ vectorChunks' = r.store
                /\ up' = IF ok
                         THEN [r.up EXCEPT !.pc = "returned",
                                           !.result = <<r.up.successful, r.up.failed>>]
                         ELSE r.up
       ELSE /\ ok
            /\ up' = [up EXCEPT !.pc = "returned",
                                !.result = <<up.successful, up.failed>>]
            /\ UNCHANGED vectorChunks
    /\ UNCHANGED <<firestore_batch_size, now>>
    /\ UNCHANGED cacheVars
    /\ UNCHANGED rlVars
    /\ UNCHANGED ansVars
    /\ UNCHANGED embVars
    /\ UNCHANGED rtvVars
    /\ UNCHANGED chkVars
    /\ UNCHANGED idVars
    /\ UNCHANGED ingVars
    /\ UNCHANGED rlcVars
    /\ UNCHANGED cuVars
    /\ UNCHANGED qryVars
    /\ UNCHANGED evlVars
    /\ UNCHANGED alnVars

UpInit ==
    /\ vectorChunks \in [ChunkIds -> {None, "old"}]
    /\ firestore_batch_size \in BatchSizes
    /\ up = UpIdle

UpIdleInit ==
    /\ vectorChunks = [i \in ChunkIds |-> None]
    /\ firestore_batch_size = 1
    /\ up = UpIdle

\* ------------------------------------------- /answer and generate_answer
GeminiFallbackThreshold == 50   \* settings.gemini_fallback_threshold, in hundredths
MaxContextLength == 8000        \* settings.max_context_length
CacheTtlHours == 24             \* settings.gemini_cache_ttl_hours

AnswerQueries == {<<"a">>, <<" ", "A">>}
AnswerUsers == {None, "u1"}
\* the texts that the provider generates; a generated text can be empty
Answers == {"a1", "a2", ""}

\* what retriever_service.retrieve hands back: "raise", or the ranked results,
\* each with its score (in hundredths) and the length of its formatted block
Result(score, size) == [score |-> score, size |-> size]
Raised == [raised |-> TRUE, results |-> << >>]
Retrieved(results) == [raised |-> FALSE, results |-> results]
RetrievalOutcomes ==
    {Raised, Retrieved(<< >>),
     Retrieved(<<Result(30, 100)>>),
     Retrieved(<<Result(70, 100)>>),
     Retrieved(<<Result(70, 9000)>>),
     Retrieved(<<Result(50, 7900), Result(30, 200)>>)}

\* an optional value: Nothing for Python's None, Some(x) for a value
Nothing == << >>
Some(x) == <<x>>

\* what model.generate_content and the extraction of its text come to
GenerateOutcomes == {"raise", "no_text"} \cup Answers

ThrottleText == "Rate limit exceeded. Please try again in a few minutes."
ApologyText == "I'm having trouble generating a response right now. Please try again."

\* RetrieverService.build_context: the blocks that make up the context, in
\* order; the loop breaks at the first block that does not fit
RECURSIVE BuildContextFrom(_, _, _)
BuildContextFrom(results, current_length, max_len) ==
    IF results = << >> THEN << >>
    ELSE IF current_length + Head(results).size > max_len THEN << >>
    ELSE <<Head(results)>>
         \o BuildContextFrom(Tail(results), current_length + Head(results).size, max_len)

BuildContext(results) == BuildContextFrom(results, 0, MaxContextLength)

\* the truth value of a context string: None and "" are falsy
ContextTruthy(context) == context # Nothing /\ context # Some(<< >>)

\* results and len(results) > 0 and results[0].score >= fallback_threshold
GoodResults(results) ==
    IF results = << >> THEN FALSE ELSE results[1].score >= GeminiFallbackThreshold

\* cache_key = query.lower().strip()
CacheKeyOf(query) == NormalizeQuery(query)

CacheKeys == {CacheKeyOf(q) : q \in AnswerQueries}

\* get_cached_response: the response, or None for no document, an expired
\* document or a store that raises
GetCachedResponse(docs, query, t, fault) ==
    LET doc == docs[CacheKeyOf(query)]
    IN  IF fault # "none" THEN None
        ELSE IF ~doc.exists THEN None
        ELSE IF t - doc.cachedAt > CacheTtlHours * SecondsPerHour THEN None
        ELSE doc.response

\* cache_response: set(..., merge=True); a store that raises is logged only
CacheResponse(docs, query, response, t, fault) ==
    LET key == CacheKeyOf(query)
        doc == docs[key]
    IN  IF fault # "none" THEN docs
        ELSE [docs EXCEPT ![key] =
                [exists |-> TRUE, query |-> query, response |-> response,
                 cachedAt |-> t,
                 hitCount |-> IF doc.exists THEN doc.hitCount + 1 ELSE 1]]

NoReq == [pc |-> "idle", query |-> << >>, use_rag |-> FALSE, user_id |-> None,
          retrieval |-> Nothing, context |-> Nothing, chunks |-> Nothing,
          prompt |-> None, source |-> None, answer |-> None,
          generation_time |-> Nothing, start_time |-> 0, trace |-> << >>,
          ret |-> None, result |-> Nothing, response |-> Nothing,
          within_limit |-> Nothing,
          rlBefore |-> [u \in Uids |-> NoDoc],
          cacheBefore |-> [k \in {} |-> NoDoc], generated |-> None,
          cache_fault |-> "none"]

\* answer_question, step 3: the AnswerResponse built from generate_answer's dict
BuildResponse(r, result) ==
    [query |-> r.query, answer |-> result.answer, source |-> result.source,
     chunks |-> r.chunks,
     cached |-> IF result.cached = Nothing THEN FALSE ELSE result.cached[1],
     generation_time_ms |-> result.generation_time_ms]

\* generate_answer returns result to answer_question, which answers the request
Return(r, result) ==
    [r EXCEPT !.pc = "done", !.ret = "return", !.result = Some(result),
              !.response = Some(BuildResponse(r, result))]

OuterExceptReraise(r) ==
    [r EXCEPT !.pc = "done", !.ret = "raise"]

\* generate_answer: except Exception: return the apology with source "error"
OuterExcept(r) ==
    Return(r, [answer |-> ApologyText, source |-> "error", cached |-> Nothing,
               generation_time_ms |-> Nothing])

\* the lifetime of a cached response, in seconds
CacheTtl == CacheTtlHours * SecondsPerHour

\* POST /answer arrives, delay lifetimes after the request before it
AnswerRequest(query, use_rag, user_id, delay) ==
    /\ req.pc \in {"idle", "done"}
    /\ answered < MaxRequests
    /\ answered = 0 => delay = 0
    /\ now + delay * CacheTtl <= MaxDelay * CacheTtl
    /\ now' = now + delay * CacheTtl
    /\ answered' = answered + 1
    /\ req' = [NoReq EXCEPT !.pc = IF use_rag THEN "retrieve" ELSE "generate_answer",
                            !.query = query, !.use_rag = use_rag,
                            !.user_id = user_id, !.start_time = now',
                            !.rlBefore = rate_limits,
                            !.cacheBefore = gemini_cache]
    /\ UNCHANGED <<gemini_cache>>
    /\ UNCHANGED cacheVars
    /\ UNCHANGED rlVars
    /\ UNCHANGED upVars
    /\ UNCHANGED embVars
    /\ UNCHANGED rtvVars
    /\ UNCHANGED chkVars
    /\ UNCHANGED idVars
    /\ UNCHANGED ingVars
    /\ UNCHANGED rlcVars
    /\ UNCHANGED cuVars
    /\ UNCHANGED qryVars
    /\ UNCHANGED evlVars
    /\ UNCHANGED alnVars

\* answer_question, step 1: retrieval, the threshold test and the context
AnswerRetrieve(outcome) ==
    /\ req.pc = "retrieve"
    /\ req' = LET r == [req EXCEPT !.pc = "generate_answer",
                                   !.retrieval = Some(outcome),
                                   !.trace = Append(@, "Retrieve")]
              IN  IF outcome.raised THEN r
                  ELSE IF GoodResults(outcome.results)
                  THEN [r EXCEPT !.context = Some(BuildContext(outcome.results)),
                                 !.chunks = Some(outcome.results)]
                  ELSE r
    /\ UNCHANGED <<gemini_cache, answered, now>>
    /\ UNCHANGED cacheVars
    /\ UNCHANGED rlVars
    /\ UNCHANGED upVars
    /\ UNCHANGED embVars
    /\ UNCHANGED rtvVars
    /\ UNCHANGED chkVars
    /\ UNCHANGED idVars
    /\ UNCHANGED ingVars
    /\ UNCHANGED rlcVars
    /\ UNCHANGED cuVars
    /\ UNCHANGED qryVars
    /\ UNCHANGED evlVars
    /\ UNCHANGED alnVars

OnRateLimitedFallThrough(r) == [r EXCEPT !.pc = "cache_check"]

\* generate_answer: if not within_limit: return the throttling message
OnRateLimited(r) ==
    Return(r, [answer |-> ThrottleText, source |-> "rate_limit", cached |-> Nothing,
               generation_time_ms |-> Nothing])

\* generate_answer: the rate limit check
AnswerRateLimit(fault) ==
    /\ req.pc = "generate_answer"
    /\ fault = "write" =>
          ReachesWrite(rate_limits, req.user_id, now, max_requests_per_hour)
    /\ LET c == CheckRateLimit(rate_limits, req.user_id, now,
                               max_requests_per_hour, fault)
           r == [req EXCEPT !.trace = Append(@, "RateLimitCheck"),
                            !.within_limit = Some(c.allowed)]
       IN  /\ rate_limits' = c.docs
           /\ req' = IF c.allowed
                     THEN [r EXCEPT !.pc = "cache_check"]
                     ELSE OnRateLimited(r)
    /\ UNCHANGED <<max_requests_per_hour, rlLast, rlBucket>>
    /\ UNCHANGED <<gemini_cache, answered, now>>
    /\ UNCHANGED cacheVars
    /\ UNCHANGED upVars
    /\ UNCHANGED embVars
    /\ UNCHANGED rtvVars
    /\ UNCHANGED chkVars
    /\ UNCHANGED idVars
    /\ UNCHANGED ingVars
    /\ UNCHANGED rlcVars
    /\ UNCHANGED cuVars
    /\ UNCHANGED qryVars
    /\ UNCHANGED evlVars
    /\ UNCHANGED alnVars

\* if cached_response: None and the empty string are falsy
Truthy(cached_response) == cached_response # None /\ cached_response # ""

\* generate_answer: the response cache lookup (use_cache is left at True)
AnswerCacheCheck(fault) ==
    /\ req.pc = "cache_check"
    /\ LET cached_response == GetCachedResponse(gemini_cache, req.query, now, fault)
           r == [req EXCEPT !.trace = Append(@, "CacheCheck"), !.cache_fault = fault]
       IN  req' = IF Truthy(cached_response)
                  THEN Return(r, [answer |-> cached_response, source |-> "cache",
                                  cached |-> Some(TRUE),
                                  generation_time_ms |-> Some(0)])
                  ELSE [r EXCEPT !.pc = "prompt"]
    /\ UNCHANGED <<gemini_cache, answered, now>>
    /\ UNCHANGED cacheVars
    /\ UNCHANGED rlVars
    /\ UNCHANGED upVars
    /\ UNCHANGED embVars
    /\ UNCHANGED rtvVars
    /\ UNCHANGED chkVars
    /\ UNCHANGED idVars
    /\ UNCHANGED ingVars
    /\ UNCHANGED rlcVars
    /\ UNCHANGED cuVars
    /\ UNCHANGED qryVars
    /\ UNCHANGED evlVars
    /\ UNCHANGED alnVars

\* generate_answer: the choice of the prompt
AnswerPrompt ==
    /\ req.pc = "prompt"
    /\ req' = [req EXCEPT !.pc = "generate",
                          !.trace = Append(@, "PromptSelect"),
                          !.prompt = IF ContextTruthy(req.context)
                                     THEN "rag" ELSE "direct",
                          !.source = IF ContextTruthy(req.context)
                                     THEN "gemini_with_rag" ELSE "gemini_direct"]
    /\ UNCHANGED <<gemini_cache, answered, now>>
    /\ UNCHANGED cacheVars
    /\ UNCHANGED rlVars
    /\ UNCHANGED upVars
    /\ UNCHANGED embVars
    /\ UNCHANGED rtvVars
    /\ UNCHANGED chkVars
    /\ UNCHANGED idVars
    /\ UNCHANGED ingVars
    /\ UNCHANGED rlcVars
    /\ UNCHANGED cuVars
    /\ UNCHANGED qryVars
    /\ UNCHANGED evlVars
    /\ UNCHANGED alnVars

\* generate_answer: the provider call and the extraction of the text
AnswerGenerate(outcome) ==
    /\ req.pc = "generate"
    /\ LET r == [req EXCEPT !.trace = Append(@, "Generate"), !.generated = outcome]
       IN  req' = IF outcome \in {"raise", "no_text"}
                  THEN OuterExcept(r)
                  ELSE [r EXCEPT !.pc = "cache_write", !.answer = outcome,
                                 !.generation_time =
                                     Some((now - r.start_time) * 1000)]
    /\ UNCHANGED <<gemini_cache, answered, now>>
    /\ UNCHANGED cacheVars
    /\ UNCHANGED rlVars
    /\ UNCHANGED upVars
    /\ UNCHANGED embVars
    /\ UNCHANGED rtvVars
    /\ UNCHANGED chkVars
    /\ UNCHANGED idVars
    /\ UNCHANGED ingVars
    /\ UNCHANGED rlcVars
    /\ UNCHANGED cuVars
    /\ UNCHANGED qryVars
    /\ UNCHANGED evlVars
    /\ UNCHANGED alnVars

\* generate_answer: the response cache write and the return of the answer
AnswerCacheWrite(fault) ==
    /\ req.pc = "cache_write"
    /\ gemini_cache' = CacheResponse(gemini_cache, req.query, req.answer, now, fault)
    /\ req' = Return([req EXCEPT !.trace = Append(@, "CacheWrite")],
                     [answer |-> req.answer, source |-> req.source,
                      cached |-> Some(FALSE),
                      generation_time_ms |-> req.generation_time])
    /\ UNCHANGED <<answered, now>>
    /\ UNCHANGED cacheVars
    /\ UNCHANGED rlVars
    /\ UNCHANGED upVars
    /\ UNCHANGED embVars
    /\ UNCHANGED rtvVars
    /\ UNCHANGED chkVars
    /\ UNCHANGED idVars
    /\ UNCHANGED ingVars
    /\ UNCHANGED rlcVars
    /\ UNCHANGED cuVars
    /\ UNCHANGED qryVars
    /\ UNCHANGED evlVars
    /\ UNCHANGED alnVars

AnsInit ==
    /\ gemini_cache = [k \in CacheKeys |-> NoDoc]
    /\ req = [NoReq EXCEPT !.cacheBefore = [k \in CacheKeys |-> NoDoc]]
    /\ answered = 0

\* ------------------------------------- EmbeddingService: batches with retry
EmbFns == {"embed_batch", "embed_batch_sync"}
EmbTexts == {<< >>, <<"t1">>, <<"t1", "t2">>}
RetryCounts == 0 .. MaxRetry
ProviderErrors == {"e1", "e2"}  \* what model.get_embeddings raises

EmbNone == [pc |-> "idle", fn |-> None, texts |-> << >>, retry_count |-> 0,
            attempt |-> 0, events |-> << >>, result |-> Nothing, error |-> None]

\* one provider call or one sleep of the running call
CallEvent(attempt, outcome) ==
    [kind |-> "call", attempt |-> attempt, outcome |-> outcome, seconds |-> 0]
SleepEvent(attempt, seconds) ==
    [kind |-> "sleep", attempt |-> attempt, outcome |-> None, seconds |-> seconds]

\* [list(emb.values) for emb in embeddings]: one vector per text, of this attempt
Vectors(texts, attempt) ==
    [i \in 1 .. Len(texts) |-> [text |-> texts[i], attempt |-> attempt]]

HasRetryLeftAlways(attempt, retry_count) == attempt < retry_count

\* if attempt < retry_count - 1
HasRetryLeft(attempt, retry_count) == attempt < retry_count - 1

\* wait_time = 2 ** attempt
WaitTime(attempt) == 2 ^ attempt

\* the call and its first lines: if not texts: return []
EmbedCall(fn, texts, retry_count) ==
    /\ emb.pc \in {"idle", "returned", "raised"}
    /\ emb' = IF texts = << >>
              THEN [EmbNone EXCEPT !.pc = "returned", !.fn = fn,
                                   !.retry_count = retry_count,
                                   !.result = Some(<< >>)]
              ELSE [EmbNone EXCEPT !.pc = "loop", !.fn = fn, !.texts = texts,
                                   !.retry_count = retry_count]
    /\ UNCHANGED now
    /\ UNCHANGED cacheVars
    /\ UNCHANGED rlVars
    /\ UNCHANGED upVars
    /\ UNCHANGED ansVars
    /\ UNCHANGED rtvVars
    /\ UNCHANGED chkVars
    /\ UNCHANGED idVars
    /\ UNCHANGED ingVars
    /\ UNCHANGED rlcVars
    /\ UNCHANGED cuVars
    /\ UNCHANGED qryVars
    /\ UNCHANGED evlVars
    /\ UNCHANGED alnVars

\* one pass of for attempt in range(retry_count): the provider call, and on
\* its failure the except clause (sleep and go on, or re-raise)
EmbedAttempt(outcome) ==
    /\ emb.pc = "loop"
    /\ emb.attempt < emb.retry_count
    /\ LET a == emb.attempt
           called == [emb EXCEPT !.events = Append(@, CallEvent(a, outcome))]
       IN  emb' = IF outcome = "ok"
                  THEN [called EXCEPT !.pc = "returned",
                                      !.result = Some(Vectors(emb.texts, a))]
                  ELSE IF HasRetryLeft(a, emb.retry_count)
                  THEN [called EXCEPT !.events = Append(@, SleepEvent(a, WaitTime(a))),
                                      !.attempt = a + 1]
                  ELSE [called EXCEPT !.pc = "raised", !.error = outcome]
    /\ UNCHANGED now
    /\ UNCHANGED cacheVars
    /\ UNCHANGED rlVars
    /\ UNCHANGED upVars
    /\ UNCHANGED ansVars
    /\ UNCHANGED rtvVars
    /\ UNCHANGED chkVars
    /\ UNCHANGED idVars
    /\ UNCHANGED ingVars
    /\ UNCHANGED rlcVars
    /\ UNCHANGED cuVars
    /\ UNCHANGED qryVars
    /\ UNCHANGED evlVars
    /\ UNCHANGED alnVars

\* the for loop runs out without a return or a raise: the function ends and
\* the caller gets None
EmbedLoopEnd ==
    /\ emb.pc = "loop"
    /\ emb.attempt >= emb.retry_count
    /\ emb' = [emb EXCEPT !.pc = "returned", !.result = Some(None)]
    /\ UNCHANGED now
    /\ UNCHANGED cacheVars
    /\ UNCHANGED rlVars
    /\ UNCHANGED upVars
    /\ UNCHANGED ansVars
    /\ UNCHANGED rtvVars
    /\ UNCHANGED chkVars
    /\ UNCHANGED idVars
    /\ UNCHANGED ingVars
    /\ UNCHANGED rlcVars
    /\ UNCHANGED cuVars
    /\ UNCHANGED qryVars
    /\ UNCHANGED evlVars
    /\ UNCHANGED alnVars

EmbIdle == emb = EmbNone

\* ------------------------------------------ VectorStore.search, retrieve
FetchLimit == 1000              \* query_ref.limit(1000)

\* embeddings are vectors of two integer components; << >> is a chunk
\* stored without an embedding
QueryEmbeddings == {<<1, 0>>, <<1, 1>>}

\* a stored chunk: its embedding and its metadata
StoredChunk(v, crop) == [embedding |-> v, metadata |-> [crop |-> crop, region |-> "east"]]
StoredChunks ==
    {StoredChunk(<<1, 0>>, "maize"), StoredChunk(<<1, 1>>, "maize"),
     StoredChunk(<<1, 1>>, "rice"), StoredChunk(<<0, 1>>, "rice"),
     StoredChunk(<< >>, "maize")}

\* the filters argument: None, or a dict given as its set of (key, value) items
FilterChoices ==
    {Nothing, Some({}), Some({<<"crop", "maize">>}),
     Some({<<"crop", "maize">>, <<"region", "east">>}), Some({<<"region", "west">>})}

TopKChoices == {-1, 0, 1, 2, 5}

Dot(a, b) == a[1] * b[1] + a[2] * b[2]

ISqrt(n) == CHOOSE r \in 0 .. 100 : r * r <= n /\ n < (r + 1) * (r + 1)

\* float("nan") among the scores, which are integers in hundredths
NaN == 1000

\* _cosine_similarity: dot(a, b) / (norm(a) * norm(b)), in hundredths; with a
\* norm of zero numpy divides 0.0 by 0.0, which warns and gives nan
CosineSimilarity(a, b) ==
    IF Dot(a, a) * Dot(b, b) = 0 THEN NaN
    ELSE LET d == Dot(a, b)
             m == ISqrt((10000 * d * d) \div (Dot(a, a) * Dot(b, b)))
         IN  IF d < 0 THEN 0 - m ELSE m

\* query_ref.where("metadata.<key>", "==", value) for every item of filters
Matches(chunk, filters) ==
    IF filters = Nothing THEN TRUE
    ELSE \A f \in filters[1] : chunk.metadata[f[1]] = f[2]

\* the first n items of a sequence
Take(s, n) == SubSeq(s, 1, IF n < Len(s) THEN n ELSE Len(s))

\* Python's s[:k]: the first k items, or for k < 0 all but the last -k
SliceTo(s, k) == IF k >= 0 THEN Take(s, k) ELSE Take(s, IF Len(s) + k > 0 THEN Len(s) + k ELSE 0)

\* query_ref.limit(1000).stream(): the cid of the matching chunks, in the
\* order of the collection
Fetch(store, filters) ==
    Take(SelectSeq([i \in 1 .. Len(store) |-> i],
                   LAMBDA i : Matches(store[i], filters)), FetchLimit)

\* the loop over docs: chunks without an embedding are skipped, the others
\* scored
Scored(store, ids, query_vector) ==
    LET withEmbedding == SelectSeq(ids, LAMBDA i : Len(store[i].embedding) # 0)
    IN  [j \in 1 .. Len(withEmbedding) |->
            [chunkId |-> withEmbedding[j],
             score |-> CosineSimilarity(query_vector, store[withEmbedding[j]].embedding),
             metadata |-> store[withEmbedding[j]].metadata]]

\* x < y on floats: every comparison with nan is false
IsLT(x, y) == x # NaN /\ y # NaN /\ x < y

\* x >= y on floats
IsGE(x, y) == x # NaN /\ y # NaN /\ x >= y

\* list.reverse()
Reverse(s) == [i \in 1 .. Len(s) |-> s[Len(s) + 1 - i]]

RECURSIVE RunEnd(_, _, _)
\* list.sort's count_run: the length of the run the list starts with, which
\* is strictly descending or else non-descending
RunEnd(s, n, descending) ==
    IF n = Len(s) THEN n
    ELSE IF IsLT(s[n + 1].score, s[n].score) = descending THEN RunEnd(s, n + 1, descending)
    ELSE n

RECURSIVE BinaryInsertPos(_, _, _, _)
\* list.sort's binarysort: where the pivot goes among the sorted items
BinaryInsertPos(sorted, pivot, l, r) ==
    IF l >= r THEN l
    ELSE LET p == l + ((r - l) \div 2)
         IN  IF IsLT(pivot, sorted[p + 1].score)
             THEN BinaryInsertPos(sorted, pivot, l, p)
             ELSE BinaryInsertPos(sorted, pivot, p + 1, r)

RECURSIVE BinarySort(_, _)
BinarySort(sorted, rest) ==
    IF rest = << >> THEN sorted
    ELSE LET pos == BinaryInsertPos(sorted, Head(rest).score, 0, Len(sorted))
         IN  BinarySort(SubSeq(sorted, 1, pos) \o <<Head(rest)>>
                            \o SubSeq(sorted, pos + 1, Len(sorted)),
                        Tail(rest))

\* list.sort() of a list shorter than the minimal run length: the run at its
\* start, then a binary insertion of the other items
ListSort(s) ==
    IF Len(s) < 2 THEN s
    ELSE LET descending == IsLT(s[2].score, s[1].score)
             n == RunEnd(s, 2, descending)
             run == SubSeq(s, 1, n)
         IN  BinarySort(IF descending THEN Reverse(run) ELSE run, SubSeq(s, n + 1, Len(s)))

SortByScoreNot(results) == results

\* results.sort(key=lambda x: x["score"], reverse=True): the list is
\* reversed, sorted in ascending order, and reversed again
SortByScore(results) == Reverse(ListSort(Reverse(results)))

\* VectorStore.search
Search(store, query_vector, top_k, filters) ==
    SliceTo(SortByScore(Scored(store, Fetch(store, filters), query_vector)), top_k)

RtvNone(store) ==
    [store |-> store, op |-> "none", query_vector |-> << >>, top_k |-> 0,
     filters |-> Nothing, results |-> << >>,
     arg_top_k |-> Nothing, arg_min_score |-> Nothing, threshold |-> 0,
     searched |-> << >>, raised |-> FALSE,
     ctx_results |-> << >>, arg_max_length |-> Nothing, max_len |-> 0,
     context_parts |-> << >>, context |-> ""]

\* a call of VectorStore.search, start to end
SearchCall(query_vector, top_k, filters) ==
    /\ rtv.op = "none"
    /\ rtv' = [RtvNone(rtv.store) EXCEPT
                 !.op = "search", !.query_vector = query_vector, !.top_k = top_k,
                 !.filters = filters,
                 !.results = Search(rtv.store, query_vector, top_k, filters)]
    /\ UNCHANGED now
    /\ UNCHANGED cacheVars
    /\ UNCHANGED rlVars
    /\ UNCHANGED upVars
    /\ UNCHANGED ansVars
    /\ UNCHANGED embVars
    /\ UNCHANGED chkVars
    /\ UNCHANGED idVars
    /\ UNCHANGED ingVars
    /\ UNCHANGED rlcVars
    /\ UNCHANGED cuVars
    /\ UNCHANGED qryVars
    /\ UNCHANGED evlVars
    /\ UNCHANGED alnVars

TopKResults == 5                \* settings.top_k_results
SimilarityThreshold == 60       \* settings.similarity_threshold, in hundredths

\* the optional top_k and min_score of a request; scores are in hundredths
TopKArgs == {Nothing, Some(0), Some(1), Some(2)}
MinScoreArgs == {Nothing, Some(0), Some(50), Some(90)}
RetrieveFilters == {Nothing, Some({<<"crop", "maize">>})}

\* Python's `value or default` for an optional number: None and 0 are falsy
OrDefault(value, default) ==
    IF value = Nothing THEN default
    ELSE IF value[1] = 0 THEN default
    ELSE value[1]

\* [result for result in results if result.get("score", 0) >= threshold]
FilterByScore(results, threshold) ==
    SelectSeq(results, LAMBDA r : IsGE(r.score, threshold))

\* a call of RetrieverService.retrieve, start to end; embedded is what
\* embed_text gives for the query: a vector, or nothing when it raises
RetrieveCall(embedded, top_k, filters, min_score) ==
    /\ rtv.op = "none"
    /\ LET k == OrDefault(top_k, TopKResults)
           threshold == OrDefault(min_score, SimilarityThreshold)
           called == [RtvNone(rtv.store) EXCEPT
                        !.op = "retrieve", !.arg_top_k = top_k,
                        !.arg_min_score = min_score, !.filters = filters,
                        !.top_k = k, !.threshold = threshold]
       IN  rtv' = IF embedded = Nothing
                  THEN [called EXCEPT !.raised = TRUE]
                  ELSE LET results == Search(rtv.store, embedded[1], k, filters)
                       IN  [called EXCEPT
                              !.query_vector = embedded[1],
                              !.searched = results,
                              !.results = FilterByScore(results, threshold)]
    /\ UNCHANGED now
    /\ UNCHANGED cacheVars
    /\ UNCHANGED rlVars
    /\ UNCHANGED upVars
    /\ UNCHANGED ansVars
    /\ UNCHANGED embVars
    /\ UNCHANGED chkVars
    /\ UNCHANGED idVars
    /\ UNCHANGED ingVars
    /\ UNCHANGED rlcVars
    /\ UNCHANGED cuVars
    /\ UNCHANGED qryVars
    /\ UNCHANGED evlVars
    /\ UNCHANGED alnVars

\* ---------------------------------------- RetrieverService.build_context
\* a retrieval result as build_context reads it; an optional metadata field
\* is Nothing when the key is missing
ContextResult(content, source, page, doc_type, crop, region, score) ==
    [content |-> content, score |-> score,
     metadata |-> [source |-> source, pageNumber |-> page, documentType |-> doc_type,
                   crop |-> crop, region |-> region]]

ContextResults ==
    {ContextResult("Plant maize at the onset of the rains.", Some("guide.pdf"),
                   Some("3"), Some("manual"), Some("maize"), Some("east"), 70),
     ContextResult("Rice needs standing water for most of its growth; drain the field two weeks before harvest.",
                   Nothing, Nothing, Some(""), Nothing, Nothing, 50),
     ContextResult("Weed early.", Some("notes"), Nothing, Nothing, Nothing, Nothing, 30)}

MaxLengthArgs == {Nothing, Some(0), Some(60), Some(130), Some(173), Some(190)}

\* metadata.get(key, default)
GetOr(value, default) == IF value = Nothing THEN default ELSE value[1]

\* f"{score:.2f}" of a score given in hundredths
ScoreText(score) ==
    (IF score < 0 THEN "-" ELSE "")
    \o LET a == IF score < 0 THEN 0 - score ELSE score
       IN  ToString(a \div 100) \o "." \o ToString((a % 100) \div 10) \o ToString(a % 10)

RECURSIVE Join(_, _)
\* sep.join(parts)
Join(parts, sep) ==
    IF parts = << >> THEN ""
    ELSE IF Len(parts) = 1 THEN parts[1]
    ELSE parts[1] \o sep \o Join(Tail(parts), sep)

\* header_parts of a result
HeaderParts(result) ==
    LET m == result.metadata
        page == GetOr(m.pageNumber, "N/A")
        doc_type == GetOr(m.documentType, "")
        crop == GetOr(m.crop, "")
        region == GetOr(m.region, "")
    IN  <<"Source: " \o GetOr(m.source, "Unknown")>>
        \o (IF page # "N/A" THEN <<"Page: " \o page>> ELSE << >>)
        \o (IF doc_type # "" THEN <<"Type: " \o doc_type>> ELSE << >>)
        \o (IF crop # "" THEN <<"Crop: " \o crop>> ELSE << >>)
        \o (IF region # "" THEN <<"Region: " \o region>> ELSE << >>)
        \o <<"Relevance: " \o ScoreText(result.score)>>

\* chunk_text = f"{header}\n{content}\n"
ChunkText(result) ==
    "[" \o Join(HeaderParts(result), ", ") \o "]" \o "\n" \o result.content \o "\n"

OnOverflowSkip(later) == later

\* if current_length + len(chunk_text) > max_len: break
OnOverflow(later) == << >>

\* the for loop of build_context: context_parts at its end
RECURSIVE ContextParts(_, _, _)
ContextParts(results, current_length, max_len) ==
    IF results = << >> THEN << >>
    ELSE LET chunk_text == ChunkText(Head(results))
         IN  IF current_length + Len(chunk_text) > max_len
             THEN OnOverflow(ContextParts(Tail(results), current_length, max_len))
             ELSE <<chunk_text>>
                  \o ContextParts(Tail(results), current_length + Len(chunk_text), max_len)

\* a call of RetrieverService.build_context, start to end
BuildContextCall(results, max_length) ==
    /\ rtv.op = "none"
    /\ rtv.store = << >>
    /\ LET max_len == OrDefault(max_length, MaxContextLength)
           context_parts == ContextParts(results, 0, max_len)
       IN  rtv' = [rtv EXCEPT !.op = "build_context", !.ctx_results = results,
                              !.arg_max_length = max_length, !.max_len = max_len,
                              !.context_parts = context_parts,
                              !.context = Join(context_parts, "\n---\n")]
    /\ UNCHANGED now
    /\ UNCHANGED cacheVars
    /\ UNCHANGED rlVars
    /\ UNCHANGED upVars
    /\ UNCHANGED ansVars
    /\ UNCHANGED embVars
    /\ UNCHANGED chkVars
    /\ UNCHANGED idVars
    /\ UNCHANGED ingVars
    /\ UNCHANGED rlcVars
    /\ UNCHANGED cuVars
    /\ UNCHANGED qryVars
    /\ UNCHANGED evlVars
    /\ UNCHANGED alnVars

RtvInit == rtv \in {RtvNone(store) : store \in SeqsUpTo(StoredChunks, MaxDocs)}

RtvIdle == rtv = RtvNone(<< >>)

\* ------------------------------------------------- chunk_text_intelligent
\* the character of a text at a position
CharAt(text, i) == SubSeq(text, i, i)

\* what \s and str.strip() take for whitespace, among the characters used
IsWhitespace(c) == c \in {" ", "\n", "\t"}

\* str.strip()
Strip(text) ==
    LET solid == {i \in 1 .. Len(text) : ~IsWhitespace(CharAt(text, i))}
    IN  IF solid = {} THEN ""
        ELSE SubSeq(text, CHOOSE i \in solid : \A j \in solid : i <= j,
                          CHOOSE i \in solid : \A j \in solid : i >= j)

\* whether text[i .. j] is a match of \n\s*\n
IsBreak(text, i, j) ==
    /\ i < j
    /\ CharAt(text, i) = "\n"
    /\ CharAt(text, j) = "\n"
    /\ \A k \in i + 1 .. j - 1 : IsWhitespace(CharAt(text, k))

\* re.split(r'\n\s*\n', text) from a position on: the leftmost match, taken
\* as long as it can be, ends a piece
RECURSIVE SplitParagraphs(_, _)
SplitParagraphs(text, from) ==
    LET starts == {i \in from .. Len(text) :
                      CharAt(text, i) = "\n"
                      /\ \E j \in i + 1 .. Len(text) : IsBreak(text, i, j)}
    IN  IF starts = {} THEN <<SubSeq(text, from, Len(text))>>
        ELSE LET i == CHOOSE a \in starts : \A b \in starts : a <= b
                 ends == {j \in i + 1 .. Len(text) : IsBreak(text, i, j)}
                 j == CHOOSE a \in ends : \A b \in ends : a >= b
             IN  <<SubSeq(text, from, i - 1)>> \o SplitParagraphs(text, j + 1)

\* estimate_tokens
EstimateTokens(text) == Len(text) \div 4

\* the chunk appended to chunks; parts (the paragraphs joined) and item (the
\* position of the text item) are kept for observation
MakeChunk(current_chunk, current_chars, page_num, item, chunks) ==
    LET chunk_text == Join(current_chunk, "\n\n")
    IN  [text |-> chunk_text, page |-> page_num, char_count |-> current_chars,
         tokens |-> EstimateTokens(chunk_text), chunkIndex |-> Len(chunks),
         parts |-> current_chunk, item |-> item]

OverflowsAlone(current_chars, para_chars, max_chars) == current_chars > max_chars

\* current_chars + para_chars > max_chars
Overflows(current_chars, para_chars, max_chars) ==
    current_chars + para_chars > max_chars

OverlapTextHead(last, overlap_chars) ==
    IF Len(last) > overlap_chars THEN SubSeq(last, 1, overlap_chars) ELSE last

\* overlap_text = current_chunk[-1], cut to its last overlap_chars characters
OverlapText(last, overlap_chars) ==
    IF Len(last) > overlap_chars
    THEN SubSeq(last, Len(last) - overlap_chars + 1, Len(last))
    ELSE last

\* the loop over the paragraphs of one item, and the flush after it
RECURSIVE ChunkParagraphs(_, _, _, _, _, _, _, _)
ChunkParagraphs(paragraphs, current_chunk, current_chars, chunks, page_num, item, max_chars, overlap_chars) ==
    IF paragraphs = << >>
    THEN IF current_chunk # << >>
         THEN Append(chunks, MakeChunk(current_chunk, current_chars, page_num, item, chunks))
         ELSE chunks
    ELSE LET para == Strip(Head(paragraphs))
             para_chars == Len(para)
             rest == Tail(paragraphs)
         IN  IF para = ""
             THEN ChunkParagraphs(rest, current_chunk, current_chars, chunks,
                                  page_num, item, max_chars, overlap_chars)
             ELSE IF Overflows(current_chars, para_chars, max_chars)
                     /\ current_chunk # << >>
             THEN LET saved == Append(chunks, MakeChunk(current_chunk, current_chars,
                                                        page_num, item, chunks))
                  IN  IF overlap_chars > 0
                      THEN LET overlap_text ==
                                   OverlapText(current_chunk[Len(current_chunk)],
                                               overlap_chars)
                           IN  ChunkParagraphs(rest, <<overlap_text, para>>,
                                               Len(overlap_text) + para_chars, saved,
                                               page_num, item, max_chars, overlap_chars)
                      ELSE ChunkParagraphs(rest, <<para>>, para_chars, saved,
                                           page_num, item, max_chars, overlap_chars)
             ELSE ChunkParagraphs(rest, Append(current_chunk, para),
                                  current_chars + para_chars, chunks,
                                  page_num, item, max_chars, overlap_chars)

PageNumDefault(item) == 1

\* page_num = item.get("page", 1), for an item that has its page
PageNum(item) == item.page

\* the loop over text_items
RECURSIVE ChunkItems(_, _, _, _, _)
ChunkItems(text_items, item, chunks, max_chars, overlap_chars) ==
    IF item > Len(text_items) THEN chunks
    ELSE LET text == text_items[item].text
         IN  IF Strip(text) = ""
             THEN ChunkItems(text_items, item + 1, chunks, max_chars, overlap_chars)
             ELSE ChunkItems(text_items, item + 1,
                             ChunkParagraphs(SplitParagraphs(text, 1), << >>, 0, chunks,
                                             PageNum(text_items[item]), item,
                                             max_chars, overlap_chars),
                             max_chars, overlap_chars)

\* chunk_text_intelligent
ChunkTextIntelligent(text_items, max_chars, overlap_chars) ==
    ChunkItems(text_items, 1, << >>, max_chars, overlap_chars)

\* ---- the inputs of the chunker
RECURSIVE Repeat(_, _)
\* text * n
Repeat(text, n) ==
    IF n = 0 THEN ""
    ELSE LET half == Repeat(text, n \div 2)
         IN  half \o half \o (IF n % 2 = 1 THEN text ELSE "")

ParagraphChoices == {"abcd", "efghijk", "lmnopqrstuvw"}

\* texts of up to MaxParas paragraphs with a blank line between them, and
\* texts with other white space around and inside the breaks
GeneratedTexts ==
    {Join(paras, "\n\n") : paras \in SeqsUpTo(ParagraphChoices, MaxParas)}
OddTexts ==
    {"abcd\n \t\n\nefghijk\n", "abcd\nefghijk", "  \n\n ", "\n\nabcd\n\n\n\nefghijk  \n\n"}
SecondTexts == {"", "xyz", "lmnopqrstuvw\n\nxyz\n\nxyz"}

TextItem(text, page) == [text |-> text, page |-> page]

SmallTextItems ==
    {<< >>}
    \cup {<<TextItem(t, 1)>> : t \in GeneratedTexts \cup OddTexts}
    \cup {<<TextItem(t, 1), TextItem(u, 2)>> :
            t \in GeneratedTexts \cup OddTexts, u \in SecondTexts}

\* long_text = "word " * 200 of test_chunk_text_intelligent_respects_max_chars
LongText == Repeat("word ", 200)

\* an item of 1200 characters in three paragraphs
ThreeParagraphs ==
    Join(<<Repeat("a", 398), Repeat("b", 399), Repeat("c", 399)>>, "\n\n")

\* an item of 1200 characters in four paragraphs
FourParagraphs ==
    Join(<<Repeat("a", 299), Repeat("b", 299), Repeat("c", 298), Repeat("d", 298)>>,
         "\n\n")

\* the items of test_chunk_text_intelligent_preserves_pages
PagesTestItems == <<TextItem("Page one content", 1), TextItem("Page two content", 2)>>

\* three items whose pages are not their positions, the second of white
\* space only
PagedItems ==
    <<TextItem("abcd\n\nefghijk", 7), TextItem("  \n\n ", 5),
      TextItem("lmnopqrstuvw\n\nxyz", 3)>>

ChunkArgs(text_items, max_chars, overlap_chars) ==
    [text_items |-> text_items, max_chars |-> max_chars,
     overlap_chars |-> overlap_chars, done |-> FALSE, chunks |-> << >>]

ChunkInputs ==
    {ChunkArgs(items, 10, overlap) : items \in SmallTextItems, overlap \in {0, 3, 5}}
    \cup {ChunkArgs(<<TextItem(LongText, 1)>>, 100, 20),
          ChunkArgs(<<TextItem(ThreeParagraphs, 1)>>, 512, 50),
          ChunkArgs(<<TextItem(FourParagraphs, 1)>>, 512, 50),
          ChunkArgs(PagesTestItems, 50, 10),
          ChunkArgs(PagedItems, 10, 3),
          ChunkArgs(PagedItems, 10, 5)}

\* a call of chunk_text_intelligent, start to end
ChunkCall ==
    /\ ~chk.done
    /\ chk' = [chk EXCEPT !.done = TRUE,
                          !.chunks = ChunkTextIntelligent(chk.text_items, chk.max_chars,
                                                          chk.overlap_chars)]
    /\ UNCHANGED now
    /\ UNCHANGED cacheVars
    /\ UNCHANGED rlVars
    /\ UNCHANGED upVars
    /\ UNCHANGED ansVars
    /\ UNCHANGED embVars
    /\ UNCHANGED rtvVars
    /\ UNCHANGED idVars
    /\ UNCHANGED ingVars
    /\ UNCHANGED rlcVars
    /\ UNCHANGED cuVars
    /\ UNCHANGED qryVars
    /\ UNCHANGED evlVars
    /\ UNCHANGED alnVars

ChkInit == chk \in ChunkInputs

ChkIdle == chk = ChunkArgs(<< >>, 512, 50)

\* ------------------------------------------------------ generate_chunk_id
\* the decimal digits, each at its rank in the character order
Digits == <<"0", "1", "2", "3", "4", "5", "6", "7", "8", "9">>

\* the format spec 04d for an index >= 0: the decimal digits, with zeros in
\* front up to a width of 4
PadWidth == 4

ZeroPadNone(n, width) == ToString(n)

ZeroPad(n, width) ==
    LET digits == ToString(n)
    IN  IF Len(digits) >= width THEN digits
        ELSE Repeat("0", width - Len(digits)) \o digits

\* f"{document_id}_chunk_{chunk_index:04d}"
GenerateChunkId(document_id, chunk_index) ==
    document_id \o "_chunk_" \o ZeroPad(chunk_index, PadWidth)

\* the rank of a character in the order of str: "-" and "_" as in ASCII
\* around the digits, any other character after them
CharRank(c) ==
    IF c = "-" THEN 0
    ELSE IF \E d \in 1 .. 10 : Digits[d] = c
         THEN CHOOSE d \in 1 .. 10 : Digits[d] = c
         ELSE IF c = "_" THEN 11 ELSE 12

\* a < b for two str whose characters beyond "-", digits and "_" agree
\* position by position
RECURSIVE StrLess(_, _)
StrLess(a, b) ==
    IF b = "" THEN FALSE
    ELSE IF a = "" THEN TRUE
    ELSE IF CharAt(a, 1) = CharAt(b, 1)
         THEN StrLess(SubSeq(a, 2, Len(a)), SubSeq(b, 2, Len(b)))
         ELSE CharRank(CharAt(a, 1)) < CharRank(CharAt(b, 1))

DocumentIds == {"doc-123", "test-doc"}

\* chunk indexes: enumerate() gives 0, 1, 2, ...; MaxIndex carries the
\* model beyond the four digits of the padding
MaxIndex == 10001
ChunkIndexes == {0, 1, 5, 9, 10, 99, 100, 999, 1000, 1234, 9999, 10000, MaxIndex}

IdArgs(d, i, e, j) ==
    [document_id |-> d, chunk_index |-> i, other_document_id |-> e,
     other_index |-> j, done |-> FALSE, id |-> "", other_id |-> "", again |-> ""]

\* two calls of generate_chunk_id, and the first of them once more
GenerateCall ==
    /\ ~cid.done
    /\ cid' = [cid EXCEPT !.done = TRUE,
                          !.id = GenerateChunkId(cid.document_id, cid.chunk_index),
                          !.other_id = GenerateChunkId(cid.other_document_id,
                                                       cid.other_index),
                          !.again = GenerateChunkId(cid.document_id, cid.chunk_index)]
    /\ UNCHANGED now
    /\ UNCHANGED cacheVars
    /\ UNCHANGED rlVars
    /\ UNCHANGED upVars
    /\ UNCHANGED ansVars
    /\ UNCHANGED embVars
    /\ UNCHANGED rtvVars
    /\ UNCHANGED chkVars
    /\ UNCHANGED ingVars
    /\ UNCHANGED rlcVars
    /\ UNCHANGED cuVars
    /\ UNCHANGED qryVars
    /\ UNCHANGED evlVars
    /\ UNCHANGED alnVars

IdInit ==
    cid \in {IdArgs(d, i, e, j) : d \in DocumentIds, e \in DocumentIds,
                                  i \in ChunkIndexes, j \in ChunkIndexes}

IdIdle == cid = IdArgs("doc-123", 0, "doc-123", 0)

\* ----------------------------------- batch_ingest / ingest_single_document
\* the batch_ingest runs that may be under way at the same time
Workers == {1, 2}

IngestDocs == {"d1", "d2"}

\* the work lists that list_gcs_documents / get_unprocessed_documents hand to
\* the runs: both runs have document d1 in their list
WorkLists ==
    {[w \in Workers |-> IF w = 1 THEN first ELSE second] :
        first \in {<<"d1">>, <<"d1", "d2">>}, second \in {<< >>, <<"d1">>}}

\* settings.embedding_batch_size, scaled to the chunk counts of the model
embedding_batch_size == 1

Terminal == {"completed", "failed"}

NoStatus == [exists |-> FALSE, status |-> "", errorMessage |-> ""]

NoWrite == [document_id |-> "", before |-> "", after |-> "", created |-> FALSE,
            overlapped |-> FALSE, started |-> FALSE, worker |-> 0]

\* the locals of one ingest_single_document call; started, overlapped,
\* wrote, embed_failed and written (the terminal status the call wrote) are
\* kept for observation
NoRun == [document_id |-> "", error |-> "", started |-> FALSE, overlapped |-> FALSE,
          wrote |-> 0, embed_failed |-> FALSE, written |-> ""]

IngRun(documents) ==
    [documents |-> documents, position |-> 0, pc |-> "loop", run |-> NoRun,
     successful |-> 0, failed |-> 0, results |-> << >>, attempts |-> << >>,
     summary |-> Nothing]

\* whether worker w is inside ingest_single_document for the document
InRunOf(w, document_id) ==
    ing[w].pc \notin {"loop", "done"} /\ ing[w].run.document_id = document_id

UpdateDocumentStatusAsFailed(statuses, document_id, status, error_message) ==
    [statuses EXCEPT ![document_id] =
        [exists |-> TRUE, status |-> "failed", errorMessage |-> error_message]]

\* document_processor.update_document_status: doc_ref.set(update_data,
\* merge=True); errorMessage is written only when one is given
UpdateDocumentStatus(statuses, document_id, status, error_message) ==
    [statuses EXCEPT ![document_id] =
        [exists |-> TRUE, status |-> status,
         errorMessage |-> IF error_message # "" THEN error_message ELSE @.errorMessage]]

\* what the write leaves for observation
StatusWrite(document_id, status, run, w) ==
    [document_id |-> document_id, before |-> document_status[document_id].status,
     after |-> status, created |-> ~document_status[document_id].exists,
     overlapped |-> run.overlapped, started |-> run.started, worker |-> w]

\* the except clause of the loop of batch_ingest: the failure is counted and
\* recorded, and the loop goes on
OnUnexpectedErrorAbort(r) ==
    [r EXCEPT !.pc = "loop", !.failed = @ + 1, !.position = Len(r.documents),
              !.results = Append(@, "failed")]

OnUnexpectedError(r) ==
    [r EXCEPT !.pc = "loop", !.failed = @ + 1, !.results = Append(@, "failed")]

\* results.append(result); result.get("status") == "failed" counts a
\* failure, anything else a success (of a result its status is kept)
CountResult(r, status) ==
    [r EXCEPT !.pc = "loop",
              !.results = Append(@, status),
              !.failed = IF status = "failed" THEN @ + 1 ELSE @,
              !.successful = IF status = "failed" THEN @ ELSE @ + 1]

\* raise inside the try of ingest_single_document: on to the except clause
RaiseInRun(r, error) == [r EXCEPT !.pc = "except", !.run.error = error]

\* the summary of batch_ingest
Summary(r) ==
    [total_documents |-> Len(r.documents), processed |-> r.successful,
     failed |-> r.failed]

\* the loop of batch_ingest: after the last document (and for an empty work
\* list) the summary; otherwise the next document, ingest_single_document
\* is entered and update_document_status(document_id, "processing", ...)
\* is called
IngestLoop(w, fault) ==
    /\ ing[w].pc = "loop"
    /\ IF ing[w].position = Len(ing[w].documents)
       THEN /\ ~fault
            /\ ing' = [ing EXCEPT ![w].pc = "done", ![w].summary = Some(Summary(ing[w]))]
            /\ UNCHANGED <<document_status, statusLog>>
       ELSE LET document_id == ing[w].documents[ing[w].position + 1]
                others == {v \in Workers \ {w} : InRunOf(v, document_id)}
                run == [NoRun EXCEPT !.document_id = document_id,
                                     !.overlapped = others # {},
                                     !.started = ~fault]
                entered == [ing[w] EXCEPT !.position = @ + 1,
                                          !.attempts = Append(@, document_id),
                                          !.run = run]
            IN  /\ ing' = [v \in Workers |->
                             IF v = w
                             THEN IF fault THEN RaiseInRun(entered, "status")
                                  ELSE [entered EXCEPT !.pc = "work"]
                             ELSE IF v \in others
                                  THEN [ing[v] EXCEPT !.run.overlapped = TRUE]
                                  ELSE ing[v]]
                /\ IF fault THEN UNCHANGED <<document_status, statusLog>>
                   ELSE /\ document_status' =
                               UpdateDocumentStatus(document_status, document_id,
                                                    "processing", "")
                        /\ statusLog' = StatusWrite(document_id, "processing",
                                                    [run EXCEPT !.started = FALSE], w)
    /\ UNCHANGED stored
    /\ UNCHANGED now
    /\ UNCHANGED cacheVars
    /\ UNCHANGED rlVars
    /\ UNCHANGED upVars
    /\ UNCHANGED ansVars
    /\ UNCHANGED embVars
    /\ UNCHANGED rtvVars
    /\ UNCHANGED chkVars
    /\ UNCHANGED idVars
    /\ UNCHANGED rlcVars
    /\ UNCHANGED cuVars
    /\ UNCHANGED qryVars
    /\ UNCHANGED evlVars
    /\ UNCHANGED alnVars

\* the number of embedding batches: range(0, len(chunks), batch_size)
BatchCount(chunks) == (chunks + embedding_batch_size - 1) \div embedding_batch_size

\* what extraction, chunking, the embedding batches and the upsert can come
\* to for a document of some chunks: [error, wrote, embed_failed]. The steps
\* run in this order, so a chunk is written only once every embedding batch
\* has returned; the upsert persists the batches committed before a commit
\* fails
WorkOutcomesStoreFirst(chunks) ==
    {[error |-> "embedding", wrote |-> chunks, embed_failed |-> TRUE],
     [error |-> "", wrote |-> chunks, embed_failed |-> FALSE]}

WorkOutcomes(chunks) ==
    {[error |-> e, wrote |-> 0, embed_failed |-> FALSE] :
        e \in {"extraction", "No text extracted from document"}}
    \cup (IF chunks = 0
          THEN {[error |-> "No chunks created from text", wrote |-> 0,
                 embed_failed |-> FALSE]}
          ELSE {[error |-> "embedding", wrote |-> 0, embed_failed |-> TRUE] :
                    batch \in 1 .. BatchCount(chunks)}
               \cup {[error |-> "storage", wrote |-> k, embed_failed |-> FALSE] :
                        k \in 0 .. chunks - 1}
               \cup {[error |-> "", wrote |-> chunks, embed_failed |-> FALSE]})

\* the chunk documents written for the first k chunks of a document
ChunkWrites(document_id, k) ==
    {[id |-> GenerateChunkId(document_id, idx), documentId |-> document_id] :
        idx \in 0 .. k - 1}

\* steps 1 to 4 of ingest_single_document: extract_text,
\* chunk_text_intelligent, embed_batch_sync per batch, upsert_chunks_batch
IngestWork(w, chunks, outcome) ==
    /\ ing[w].pc = "work"
    /\ outcome \in WorkOutcomes(chunks)
    /\ stored' = stored \cup ChunkWrites(ing[w].run.document_id, outcome.wrote)
    /\ ing' = [ing EXCEPT ![w] =
                  LET r == [@ EXCEPT !.run.wrote = outcome.wrote,
                                     !.run.embed_failed = outcome.embed_failed]
                  IN  IF outcome.error # "" THEN RaiseInRun(r, outcome.error)
                      ELSE [r EXCEPT !.pc = "completed"]]
    /\ UNCHANGED <<document_status, statusLog>>
    /\ UNCHANGED now
    /\ UNCHANGED cacheVars
    /\ UNCHANGED rlVars
    /\ UNCHANGED upVars
    /\ UNCHANGED ansVars
    /\ UNCHANGED embVars
    /\ UNCHANGED rtvVars
    /\ UNCHANGED chkVars
    /\ UNCHANGED idVars
    /\ UNCHANGED rlcVars
    /\ UNCHANGED cuVars
    /\ UNCHANGED qryVars
    /\ UNCHANGED evlVars
    /\ UNCHANGED alnVars

\* calculate_file_hash, then update_document_status(document_id,
\* "completed", ...) and return stats: either call may raise
IngestSetCompleted(w, outcome) ==
    /\ ing[w].pc = "completed"
    /\ IF outcome = "ok"
       THEN /\ document_status' = UpdateDocumentStatus(document_status,
                                      ing[w].run.document_id, "completed", "")
            /\ statusLog' = StatusWrite(ing[w].run.document_id, "completed", ing[w].run, w)
            /\ ing' = [ing EXCEPT ![w] =
                          CountResult([@ EXCEPT !.run.written = "completed"], "")]
       ELSE /\ ing' = [ing EXCEPT ![w] = RaiseInRun(@, outcome)]
            /\ UNCHANGED <<document_status, statusLog>>
    /\ UNCHANGED stored
    /\ UNCHANGED now
    /\ UNCHANGED cacheVars
    /\ UNCHANGED rlVars
    /\ UNCHANGED upVars
    /\ UNCHANGED ansVars
    /\ UNCHANGED embVars
    /\ UNCHANGED rtvVars
    /\ UNCHANGED chkVars
    /\ UNCHANGED idVars
    /\ UNCHANGED rlcVars
    /\ UNCHANGED cuVars
    /\ UNCHANGED qryVars
    /\ UNCHANGED evlVars
    /\ UNCHANGED alnVars

\* except Exception as e: update_document_status(document_id, "failed",
\* error_message=str(e)) and return the failed result; if the update raises,
\* the exception reaches the except clause of batch_ingest
IngestExcept(w, fault) ==
    /\ ing[w].pc = "except"
    /\ IF fault
       THEN /\ ing' = [ing EXCEPT ![w] = OnUnexpectedError(@)]
            /\ UNCHANGED <<document_status, statusLog>>
       ELSE /\ document_status' = UpdateDocumentStatus(document_status,
                                      ing[w].run.document_id, "failed",
                                      ing[w].run.error)
            /\ statusLog' = StatusWrite(ing[w].run.document_id, "failed", ing[w].run, w)
            /\ ing' = [ing EXCEPT ![w] =
                          CountResult([@ EXCEPT !.run.written = "failed"], "failed")]
    /\ UNCHANGED stored
    /\ UNCHANGED now
    /\ UNCHANGED cacheVars
    /\ UNCHANGED rlVars
    /\ UNCHANGED upVars
    /\ UNCHANGED ansVars
    /\ UNCHANGED embVars
    /\ UNCHANGED rtvVars
    /\ UNCHANGED chkVars
    /\ UNCHANGED idVars
    /\ UNCHANGED rlcVars
    /\ UNCHANGED cuVars
    /\ UNCHANGED qryVars
    /\ UNCHANGED evlVars
    /\ UNCHANGED alnVars

IngInit ==
    /\ ing \in {[w \in Workers |-> IngRun(lists[w])] : lists \in WorkLists}
    /\ document_status = [d \in IngestDocs |-> NoStatus]
    /\ stored = {}
    /\ statusLog = NoWrite

IngIdle ==
    /\ ing = [w \in Workers |-> [IngRun(<< >>) EXCEPT !.pc = "done"]]
    /\ document_status = [d \in IngestDocs |-> NoStatus]
    /\ stored = {}
    /\ statusLog = NoWrite

\* --------------------------- check_rate_limit called by concurrent workers
\* the user_id arguments of the concurrent calls
ConcurrentUserIds == {None, "u1"}

RLWIdleWorker == [pc |-> "idle", uid |-> "", doc |-> NoDoc, current_hour |-> 0, calls |-> 0]

\* doc = rate_limit_ref.get() and current_hour = int(now.timestamp() // 3600):
\* the worker holds a copy of the record as it was read
RLRead(w, user_id) ==
    /\ rlw[w].pc = "idle"
    /\ rlw[w].calls < MaxCalls
    /\ rlw' = [rlw EXCEPT ![w] = [pc |-> "read", uid |-> UidOf(user_id),
                                  doc |-> rate_limits[UidOf(user_id)],
                                  current_hour |-> HourOf(now),
                                  calls |-> rlw[w].calls + 1]]
    /\ UNCHANGED rlGranted
    /\ UNCHANGED <<now, rlVars>>
    /\ UNCHANGED cacheVars
    /\ UNCHANGED upVars
    /\ UNCHANGED ansVars
    /\ UNCHANGED embVars
    /\ UNCHANGED rtvVars
    /\ UNCHANGED chkVars
    /\ UNCHANGED idVars
    /\ UNCHANGED ingVars
    /\ UNCHANGED cuVars
    /\ UNCHANGED qryVars
    /\ UNCHANGED evlVars
    /\ UNCHANGED alnVars

\* the store operation that follows the read, decided on the copy: set() of
\* a new record, update() for a new hour, or update() with Increment(1),
\* which adds to the record as it is in the store at that moment
StoreAfterRead(docs, uid, doc, current_hour, t) ==
    IF ~doc.exists
    THEN [docs EXCEPT ![uid] = [exists |-> TRUE, userId |-> uid,
                                requestsThisHour |-> 1,
                                currentHour |-> current_hour,
                                totalRequests |-> 1,
                                firstRequestAt |-> t, lastRequestAt |-> t]]
    ELSE IF current_hour # doc.currentHour
    THEN [docs EXCEPT ![uid] = [@ EXCEPT !.requestsThisHour = 1,
                                         !.currentHour = current_hour,
                                         !.totalRequests = @ + 1,
                                         !.lastRequestAt = t]]
    ELSE [docs EXCEPT ![uid] = [@ EXCEPT !.requestsThisHour = @ + 1,
                                         !.totalRequests = @ + 1,
                                         !.lastRequestAt = t]]

\* the rest of check_rate_limit after the read: return False on a copy at
\* the limit, otherwise the store operation and return True
RLDecide(w) ==
    LET uid == rlw[w].uid
        doc == rlw[w].doc
        current_hour == rlw[w].current_hour
        rejected == /\ doc.exists
                    /\ current_hour = doc.currentHour
                    /\ OverLimit(doc.requestsThisHour, max_requests_per_hour)
    IN  /\ rlw[w].pc = "read"
        /\ rlw' = [rlw EXCEPT ![w] = [RLWIdleWorker EXCEPT !.calls = rlw[w].calls]]
        /\ IF rejected
           THEN UNCHANGED <<rate_limits, rlGranted>>
           ELSE /\ rate_limits' = StoreAfterRead(rate_limits, uid, doc, current_hour, now)
                /\ rlGranted' = [rlGranted EXCEPT ![uid][current_hour] = @ + 1]
        /\ UNCHANGED <<now, max_requests_per_hour, rlLast, rlBucket>>
        /\ UNCHANGED cacheVars
        /\ UNCHANGED upVars
        /\ UNCHANGED ansVars
        /\ UNCHANGED embVars
        /\ UNCHANGED rtvVars
        /\ UNCHANGED chkVars
        /\ UNCHANGED idVars
        /\ UNCHANGED ingVars
        /\ UNCHANGED cuVars
        /\ UNCHANGED qryVars
        /\ UNCHANGED evlVars
        /\ UNCHANGED alnVars

RLWInit ==
    /\ rlw = [w \in Workers |-> RLWIdleWorker]
    /\ rlGranted = [u \in Uids |-> [h \in 0 .. MaxHour |-> 0]]

RLWIdle ==
    /\ rlw = [w \in Workers |-> RLWIdleWorker]
    /\ rlGranted = [u \in Uids |-> [h \in 0 .. MaxHour |-> 0]]

\* ----------------- upsert_chunk / upsert_chunks_batch from concurrent runs
\* the chunk that writer w passes at position n of its input, for an id
ChunkData(w, n, chunk_id) ==
    [chunk_id |-> chunk_id, content |-> <<"text", w, n>>, embedding |-> <<w, n>>,
     metadata |-> [documentId |-> "d1", chunkIndex |-> n, run |-> w]]

\* doc_data of upsert_chunk and upsert_chunks_batch (the server timestamps
\* left out)
DocData(chunk_data) ==
    [id |-> chunk_data.chunk_id, content |-> chunk_data.content,
     embedding |-> chunk_data.embedding,
     embeddingDim |-> Len(chunk_data.embedding),
     metadata |-> chunk_data.metadata]

SetDocInsert(docs, doc_data) == docs \cup {doc_data}

\* doc_ref.set(doc_data) on collection(...).document(chunk_id): the document
\* of that id is replaced as a whole
SetDoc(docs, doc_data) == {d \in docs : d.id # doc_data.id} \cup {doc_data}

\* batch.commit(): the sets of the batch, in order, in one atomic write
RECURSIVE CommitBatch(_, _)
CommitBatch(docs, batch) ==
    IF batch = << >> THEN docs
    ELSE CommitBatch(SetDoc(docs, Head(batch)), Tail(batch))

\* the commits of upsert_chunks_batch for chunks that all carry an id:
\* batches of firestore_batch_size chunks, the last one holding the rest
RECURSIVE BatchesOf(_, _)
BatchesOf(chunks_data, size) ==
    IF chunks_data = << >> THEN << >>
    ELSE IF Len(chunks_data) <= size THEN <<chunks_data>>
    ELSE <<SubSeq(chunks_data, 1, size)>>
         \o BatchesOf(SubSeq(chunks_data, size + 1, Len(chunks_data)), size)

\* the inputs of a writer: up to MaxWrites chunks with ids of ChunkIds
WriterInputs(w) ==
    {[n \in 1 .. Len(chunk_ids) |-> ChunkData(w, n, chunk_ids[n])] :
        chunk_ids \in SeqsUpTo(ChunkIds, MaxWrites)}

\* a writer: upsert_chunks_batch with its commits still to make (a call of
\* upsert_chunk is one commit of one chunk)
Writer(chunks_data, size) ==
    [pending |-> BatchesOf([n \in 1 .. Len(chunks_data) |-> DocData(chunks_data[n])], size),
     committed |-> << >>, raised |-> FALSE]

\* the next batch.commit() of a writer, or doc_ref.set() of upsert_chunk;
\* a commit that fails writes nothing and ends the call
WriterCommit(w, ok) ==
    /\ writers[w].pending # << >>
    /\ LET batch == Head(writers[w].pending)
       IN  IF ok
           THEN /\ chunkDocs' = CommitBatch(chunkDocs, batch)
                /\ writers' = [writers EXCEPT ![w].pending = Tail(@),
                                              ![w].committed = @ \o batch]
           ELSE /\ UNCHANGED chunkDocs
                /\ writers' = [writers EXCEPT ![w].pending = << >>,
                                              ![w].raised = TRUE]
    /\ UNCHANGED now
    /\ UNCHANGED cacheVars
    /\ UNCHANGED rlVars
    /\ UNCHANGED upVars
    /\ UNCHANGED ansVars
    /\ UNCHANGED embVars
    /\ UNCHANGED rtvVars
    /\ UNCHANGED chkVars
    /\ UNCHANGED idVars
    /\ UNCHANGED ingVars
    /\ UNCHANGED rlcVars
    /\ UNCHANGED qryVars
    /\ UNCHANGED evlVars
    /\ UNCHANGED alnVars

CuInit ==
    /\ chunkDocs = {}
    /\ writers \in {[w \in Workers |-> Writer(IF w = 1 THEN first ELSE second, size)] :
                       first \in WriterInputs(1), second \in WriterInputs(2),
                       size \in 1 .. MaxWrites}

CuIdle ==
    /\ chunkDocs = {}
    /\ writers = [w \in Workers |-> Writer(<< >>, 1)]

\* ------------------------------------------------- POST /query (main.py)
QueryCacheMaxsize == 100    \* query_cache = QueryCache(maxsize=100, ...
QueryCacheTtl == 3600       \* ... ttl_seconds=3600)

\* the times at which requests arrive: with an entry written at 0, at the
\* end of its lifetime, and after it
QueryClock == {0, 3600, 3601}

\* a document of the chunks collection; ids are numbers and the content is
\* a version number
ChunkDoc(id, document_id, content) ==
    [id |-> id, content |-> content, metadata |-> [documentId |-> document_id]]

\* the ids of the given documents in ascending order, which is the order of
\* a stream and the order in which search ranks them here
IdsInOrder(docs) ==
    LET ids == {doc.id : doc \in docs}
        top == IF ids = {} THEN 0 ELSE CHOOSE m \in ids : \A x \in ids : x <= m
    IN  SelectSeq([i \in 1 .. top |-> i], LAMBDA i : i \in ids)

CollectionAtStart ==
    {ChunkDoc(1, "d1", 1), ChunkDoc(2, "d1", 1), ChunkDoc(3, "d2", 1)}

\* QueryRequest
QueryRequest(query, top_k, filters, min_score) ==
    [query |-> query, top_k |-> top_k, filters |-> filters, min_score |-> min_score]

\* requests that differ from the first one in the letter case and the
\* padding of the query, in the query, in top_k, in the filters (one given
\* with its keys in two orders) and in min_score
QueryRequests ==
    {QueryRequest(<<"a">>, Nothing, Nothing, Nothing),
     QueryRequest(<<" ", "A">>, Nothing, Nothing, Nothing),
     QueryRequest(<<"b">>, Nothing, Nothing, Nothing),
     QueryRequest(<<"a">>, Some(1), Nothing, Nothing),
     QueryRequest(<<"a">>, Nothing, Some(DictAB), Nothing),
     QueryRequest(<<"a">>, Nothing, Some(DictBA), Nothing),
     QueryRequest(<<"a">>, Nothing, Nothing, Some(50))}

\* the exception messages of a failing retrieval
ErrorMessages == {"timeout", "quota exceeded for key K-1"}

\* cache_key_data of query()
CacheKeyData(request) ==
    [query |-> request.query, top_k |-> request.top_k, filters |-> request.filters,
     min_score |-> request.min_score]

\* json.dumps of an optional number: null or its digits, which is one text
\* per value
JsonNumber(value) == value

\* json.dumps(..., sort_keys=True) of an optional dict of strings: null, or
\* the items in the order of their keys
JsonDict(value) ==
    IF value = Nothing THEN [null |-> TRUE, items |-> << >>]
    ELSE [null |-> FALSE, items |-> SortKeys(value[1])]

\* filter_str = json.dumps(filters or {}, sort_keys=True) for the dict that
\* query() passes as filters: its keys in sorted order, the query text as
\* the request gave it
JsonDumps(data) ==
    [filters |-> JsonDict(data.filters), min_score |-> JsonNumber(data.min_score),
     query |-> data.query, top_k |-> JsonNumber(data.top_k)]

\* _hash_key(request.query, cache_key_data): the key string that is hashed
QueryHashKey(request) ==
    [normalized_query |-> NormalizeQuery(request.query),
     filter_str |-> JsonDumps(CacheKeyData(request))]

\* retriever_service.retrieve on the collection: the chunks that are there,
\* best first, at most top_k of them (claims C15 and C16 are about the
\* scores and the filters, which are left out here)
Retrieve(docs, request) ==
    LET found == IdsInOrder(docs)
        results == [i \in 1 .. Len(found) |-> CHOOSE d \in docs : d.id = found[i]]
    IN  SliceTo(results, OrDefault(request.top_k, TopKResults))

\* QueryResponse(query, chunks, totalRetrieved, context); the context is a
\* function of the chunks
QueryResponse(request, results) ==
    [status_code |-> 200, query |-> request.query, chunks |-> results,
     totalRetrieved |-> Len(results), detail |-> ""]

\* raise HTTPException(status_code=500, detail=f"Query processing failed: {str(e)}")
QueryFailed(error) ==
    [status_code |-> 500, query |-> << >>, chunks |-> << >>, totalRetrieved |-> 0,
     detail |-> "Query processing failed: " \o error]

\* POST /query, start to end; error is the message of the exception that
\* the retrieval raises, or nothing
Query(request, error) ==
    /\ Len(qry) < MaxQueries
    /\ LET key == QueryHashKey(request)
           hit == GetHit(query_cache, key, now, QueryCacheTtl)
           looked == GetCacheAfter(query_cache, key, now, QueryCacheTtl)
           response == IF hit THEN query_cache[IndexOf(query_cache, key)].result
                       ELSE IF error # Nothing THEN QueryFailed(error[1])
                       ELSE QueryResponse(request, Retrieve(collection, request))
       IN  /\ query_cache' = IF hit \/ error # Nothing THEN looked
                             ELSE SetCacheAfter(looked, key, response, now,
                                                QueryCacheMaxsize)
           /\ qry' = Append(qry, [request |-> request, time |-> now, hit |-> hit,
                                  error |-> IF hit THEN Nothing ELSE error,
                                  response |-> response,
                                  missing |-> {i \in 1 .. Len(response.chunks) :
                                                  response.chunks[i] \notin collection}])
    /\ UNCHANGED <<now, collection, del>>
    /\ UNCHANGED cacheVars
    /\ UNCHANGED rlVars
    /\ UNCHANGED upVars
    /\ UNCHANGED ansVars
    /\ UNCHANGED embVars
    /\ UNCHANGED rtvVars
    /\ UNCHANGED chkVars
    /\ UNCHANGED idVars
    /\ UNCHANGED ingVars
    /\ UNCHANGED rlcVars
    /\ UNCHANGED cuVars
    /\ UNCHANGED evlVars
    /\ UNCHANGED alnVars

\* time passes between two requests
QueryTick ==
    /\ \E t \in QueryClock : t > now /\ now' = t
    /\ UNCHANGED qryVars
    /\ UNCHANGED cacheVars
    /\ UNCHANGED rlVars
    /\ UNCHANGED upVars
    /\ UNCHANGED ansVars
    /\ UNCHANGED embVars
    /\ UNCHANGED rtvVars
    /\ UNCHANGED chkVars
    /\ UNCHANGED idVars
    /\ UNCHANGED ingVars
    /\ UNCHANGED rlcVars
    /\ UNCHANGED cuVars
    /\ UNCHANGED evlVars
    /\ UNCHANGED alnVars

\* ------------------------------------ VectorStore.delete_by_document_id
DeleteCommitEvery == 500    \* if batch_count >= 500: batch.commit()

\* .where("metadata.documentId", "==", document_id).stream(): the ids of the
\* matching documents
Matching(docs, document_id) == {doc \in docs : doc.metadata.documentId = document_id}

\* the delete batches that the loop commits for n streamed documents, as
\* the positions in the stream that each holds: one batch per full
\* DeleteCommitEvery documents, then one with the remaining documents
DeleteBatchesAll(n) == IF n = 0 THEN << >> ELSE << [first |-> 1, last |-> n] >>

DeleteBatches(n) ==
    [k \in 1 .. (n \div DeleteCommitEvery) |->
        [first |-> (k - 1) * DeleteCommitEvery + 1, last |-> k * DeleteCommitEvery]]
    \o (IF n % DeleteCommitEvery > 0
        THEN << [first |-> n - (n % DeleteCommitEvery) + 1, last |-> n] >>
        ELSE << >>)

\* delete_by_document_id(document_id); failing is the number of the
\* batch.commit() that raises (0: none does). A commit deletes its documents
\* in one atomic write; a failed one deletes nothing and ends the call.
DeleteByDocumentId(docs, document_id, failing) ==
    LET stream == IdsInOrder(Matching(docs, document_id))
        batches == DeleteBatches(Len(stream))
        raised == failing \in 1 .. Len(batches)
        applied == IF raised THEN failing - 1 ELSE Len(batches)
        deleted == IF applied = 0 THEN {}
                   ELSE {stream[i] : i \in 1 .. batches[applied].last}
    IN  [raised |-> raised,
         count |-> IF raised THEN Nothing ELSE Some(Len(stream)),
         commits |-> [k \in 1 .. applied |-> batches[k].last - batches[k].first + 1],
         attempted |-> IF raised THEN batches[failing].last - batches[failing].first + 1
                       ELSE 0,
         docs |-> {doc \in docs : doc.id \notin deleted}]

\* what is observed of a call: the chunks of the document before and after
\* it, and whether the chunks of the other documents are as they were
NoDelete ==
    [called |-> FALSE, document_id |-> "", raised |-> FALSE, count |-> Nothing,
     commits |-> << >>, attempted |-> 0, matched |-> 0, remaining |-> 0,
     others_kept |-> TRUE]

DeleteObserved(docs, document_id, call) ==
    [called |-> TRUE, document_id |-> document_id, raised |-> call.raised,
     count |-> call.count, commits |-> call.commits, attempted |-> call.attempted,
     matched |-> Cardinality(Matching(docs, document_id)),
     remaining |-> Cardinality(Matching(call.docs, document_id)),
     others_kept |-> (docs \ Matching(docs, document_id))
                        = (call.docs \ Matching(call.docs, document_id))]

\* a call of delete_by_document_id, start to end
Delete(document_id, failing) ==
    /\ LET call == DeleteByDocumentId(collection, document_id, failing)
       IN  /\ del' = DeleteObserved(collection, document_id, call)
           /\ collection' = call.docs
    /\ UNCHANGED <<now, query_cache, qry>>
    /\ UNCHANGED cacheVars
    /\ UNCHANGED rlVars
    /\ UNCHANGED upVars
    /\ UNCHANGED ansVars
    /\ UNCHANGED embVars
    /\ UNCHANGED rtvVars
    /\ UNCHANGED chkVars
    /\ UNCHANGED idVars
    /\ UNCHANGED ingVars
    /\ UNCHANGED rlcVars
    /\ UNCHANGED cuVars
    /\ UNCHANGED evlVars
    /\ UNCHANGED alnVars

\* upsert_chunk of a chunk into the collection: doc_ref.set(doc_data)
CollectionUpsert(id, document_id, content) ==
    /\ collection' = SetDoc(collection, ChunkDoc(id, document_id, content))
    /\ UNCHANGED <<now, query_cache, qry, del>>
    /\ UNCHANGED cacheVars
    /\ UNCHANGED rlVars
    /\ UNCHANGED upVars
    /\ UNCHANGED ansVars
    /\ UNCHANGED embVars
    /\ UNCHANGED rtvVars
    /\ UNCHANGED chkVars
    /\ UNCHANGED idVars
    /\ UNCHANGED ingVars
    /\ UNCHANGED rlcVars
    /\ UNCHANGED cuVars
    /\ UNCHANGED evlVars
    /\ UNCHANGED alnVars

\* a collection with the given numbers of chunks of d1 and of d2
CollectionOf(n1, n2) ==
    {ChunkDoc(i, "d1", 1) : i \in 1 .. n1} \cup {ChunkDoc(n1 + i, "d2", 1) : i \in 1 .. n2}

DelInit ==
    /\ collection \in {CollectionOf(n1, n2) : n1 \in {0, 1, 2, 499, 500, 501, 1001},
                                              n2 \in {0, 1, 3}}
    /\ query_cache = << >>
    /\ qry = << >>
    /\ del = NoDelete

QryInit ==
    collection = CollectionAtStart /\ query_cache = << >> /\ qry = << >> /\ del = NoDelete

QryIdle == collection = {} /\ query_cache = << >> /\ qry = << >> /\ del = NoDelete

\* ------------------------- EmbeddingService.embed_batch on the event loop
\* the coroutines: a call of embed_batch, and another request, which
\* suspends at an await after each of its steps
Embedder == "embed_batch"
OtherRequest == "request"
LoopFree == "free"

NoCoro == [pc |-> "idle", retry_count |-> 0, attempt |-> 0, wake |-> 0, steps |-> 0,
           steps_in_wait |-> 0]

\* the event loop resumes embed_batch; the coroutine has no await, so it
\* keeps the thread until it returns or raises
EvlEmbedCall(retry_count) ==
    /\ running = LoopFree
    /\ coro[Embedder].pc = "idle"
    /\ running' = Embedder
    /\ coro' = [coro EXCEPT ![Embedder] =
                  [NoCoro EXCEPT !.pc = "loop", !.retry_count = retry_count]]
    /\ UNCHANGED now
    /\ UNCHANGED cacheVars
    /\ UNCHANGED rlVars
    /\ UNCHANGED upVars
    /\ UNCHANGED ansVars
    /\ UNCHANGED embVars
    /\ UNCHANGED rtvVars
    /\ UNCHANGED chkVars
    /\ UNCHANGED idVars
    /\ UNCHANGED ingVars
    /\ UNCHANGED rlcVars
    /\ UNCHANGED cuVars
    /\ UNCHANGED qryVars
    /\ UNCHANGED alnVars

\* time.sleep(wait_time): the thread sleeps inside the coroutine, which
\* stays the one that the loop is executing
TimeSleep(t) == t

\* an attempt of embed_batch for a non-empty batch: model.get_embeddings
\* returns or raises, and a failure with a retry left starts the backoff
EvlEmbedAttempt(outcome) ==
    /\ running = Embedder
    /\ coro[Embedder].pc = "loop"
    /\ LET c == coro[Embedder]
       IN  IF c.attempt >= c.retry_count \/ outcome = "ok"
           THEN /\ coro' = [coro EXCEPT ![Embedder].pc = "returned"]
                /\ running' = LoopFree
           ELSE IF HasRetryLeft(c.attempt, c.retry_count)
           THEN /\ coro' = [coro EXCEPT ![Embedder].pc = "sleep",
                                        ![Embedder].wake = now + WaitTime(c.attempt)]
                /\ running' = TimeSleep(Embedder)
           ELSE /\ coro' = [coro EXCEPT ![Embedder].pc = "raised"]
                /\ running' = LoopFree
    /\ UNCHANGED now
    /\ UNCHANGED cacheVars
    /\ UNCHANGED rlVars
    /\ UNCHANGED upVars
    /\ UNCHANGED ansVars
    /\ UNCHANGED embVars
    /\ UNCHANGED rtvVars
    /\ UNCHANGED chkVars
    /\ UNCHANGED idVars
    /\ UNCHANGED ingVars
    /\ UNCHANGED rlcVars
    /\ UNCHANGED cuVars
    /\ UNCHANGED qryVars
    /\ UNCHANGED alnVars

\* the backoff interval is over: the next attempt of the for loop
EvlEmbedWake ==
    /\ coro[Embedder].pc = "sleep"
    /\ now >= coro[Embedder].wake
    /\ running \in {LoopFree, Embedder}
    /\ running' = Embedder
    /\ coro' = [coro EXCEPT ![Embedder].pc = "loop", ![Embedder].attempt = @ + 1]
    /\ UNCHANGED now
    /\ UNCHANGED cacheVars
    /\ UNCHANGED rlVars
    /\ UNCHANGED upVars
    /\ UNCHANGED ansVars
    /\ UNCHANGED embVars
    /\ UNCHANGED rtvVars
    /\ UNCHANGED chkVars
    /\ UNCHANGED idVars
    /\ UNCHANGED ingVars
    /\ UNCHANGED rlcVars
    /\ UNCHANGED cuVars
    /\ UNCHANGED qryVars
    /\ UNCHANGED alnVars

\* the event loop runs the other request up to its next await
EvlOtherStep ==
    /\ running = LoopFree
    /\ coro[OtherRequest].steps < MaxSteps
    /\ coro' = [coro EXCEPT ![OtherRequest].steps = @ + 1,
                            ![OtherRequest].steps_in_wait =
                                IF coro[Embedder].pc = "sleep" THEN @ + 1 ELSE @]
    /\ UNCHANGED <<now, running>>
    /\ UNCHANGED cacheVars
    /\ UNCHANGED rlVars
    /\ UNCHANGED upVars
    /\ UNCHANGED ansVars
    /\ UNCHANGED embVars
    /\ UNCHANGED rtvVars
    /\ UNCHANGED chkVars
    /\ UNCHANGED idVars
    /\ UNCHANGED ingVars
    /\ UNCHANGED rlcVars
    /\ UNCHANGED cuVars
    /\ UNCHANGED qryVars
    /\ UNCHANGED alnVars

\* a second passes; a sleeping coroutine does not sleep past its wake time
EvlTick ==
    /\ now < MaxWait
    /\ coro[Embedder].pc = "sleep" => now < coro[Embedder].wake
    /\ now' = now + 1
    /\ UNCHANGED <<running, coro>>
    /\ UNCHANGED cacheVars
    /\ UNCHANGED rlVars
    /\ UNCHANGED upVars
    /\ UNCHANGED ansVars
    /\ UNCHANGED embVars
    /\ UNCHANGED rtvVars
    /\ UNCHANGED chkVars
    /\ UNCHANGED idVars
    /\ UNCHANGED ingVars
    /\ UNCHANGED rlcVars
    /\ UNCHANGED cuVars
    /\ UNCHANGED qryVars
    /\ UNCHANGED alnVars

EvlInit == running = LoopFree /\ coro = [t \in {Embedder, OtherRequest} |-> NoCoro]

EvlIdle == running = LoopFree /\ coro = [t \in {Embedder, OtherRequest} |-> NoCoro]

\* ------------------- ingest_single_document: embedding batches and upsert
\* the chunks of a document are numbered as enumerate() numbers them, and a
\* chunk's text is told by its number; the vector that the provider computes
\* from a text
EmbeddingOf(text) == [text |-> text]

AlnNone ==
    [pc |-> "idle", chunks |-> 0, position |-> 0, all_embeddings |-> << >>,
     chunks_data |-> << >>, persisted |-> {}, successful |-> 0, failed |-> 0]

\* chunks = chunk_text_intelligent(...), a non-empty list
AlnChunk(n) ==
    /\ aln.pc = "idle"
    /\ aln' = [AlnNone EXCEPT !.pc = "embed", !.chunks = n]
    /\ UNCHANGED now
    /\ UNCHANGED cacheVars
    /\ UNCHANGED rlVars
    /\ UNCHANGED upVars
    /\ UNCHANGED ansVars
    /\ UNCHANGED embVars
    /\ UNCHANGED rtvVars
    /\ UNCHANGED chkVars
    /\ UNCHANGED idVars
    /\ UNCHANGED ingVars
    /\ UNCHANGED rlcVars
    /\ UNCHANGED cuVars
    /\ UNCHANGED qryVars
    /\ UNCHANGED evlVars

\* batch_texts of the batch that starts at position i: chunks[i:i + batch_size]
BatchTexts(chunks, i) ==
    [k \in 1 .. (IF i + embedding_batch_size < chunks THEN embedding_batch_size ELSE chunks - i)
        |-> i + k - 1]

\* embed_batch_sync: [list(emb.values) for emb in embeddings], whatever the
\* number of embeddings that model.get_embeddings returned; returned is the
\* set of the positions in the batch for which the provider returned a vector
EmbedBatchSync(texts, returned) ==
    LET kept == SelectSeq([k \in 1 .. Len(texts) |-> k], LAMBDA k : k \in returned)
    IN  [j \in 1 .. Len(kept) |-> EmbeddingOf(texts[kept[j]])]

\* one turn of the loop over the batches: all_embeddings.extend(batch_embeddings),
\* or the exception of embed_batch_sync once its retries are used up
AlnEmbedBatch(returned, raises) ==
    /\ aln.pc = "embed"
    /\ LET texts == BatchTexts(aln.chunks, aln.position)
           next == aln.position + embedding_batch_size
       IN  /\ returned \subseteq 1 .. Len(texts)
           /\ aln' = IF raises THEN [aln EXCEPT !.pc = "raised"]
                     ELSE [aln EXCEPT
                             !.all_embeddings = @ \o EmbedBatchSync(texts, returned),
                             !.position = next,
                             !.pc = IF next < aln.chunks THEN "embed" ELSE "store"]
    /\ UNCHANGED now
    /\ UNCHANGED cacheVars
    /\ UNCHANGED rlVars
    /\ UNCHANGED upVars
    /\ UNCHANGED ansVars
    /\ UNCHANGED embVars
    /\ UNCHANGED rtvVars
    /\ UNCHANGED chkVars
    /\ UNCHANGED idVars
    /\ UNCHANGED ingVars
    /\ UNCHANGED rlcVars
    /\ UNCHANGED cuVars
    /\ UNCHANGED qryVars
    /\ UNCHANGED evlVars

\* for idx, (chunk, embedding) in enumerate(zip(chunks, all_embeddings)): zip
\* stops at the end of the shorter list
ZipChunks(chunks, all_embeddings) ==
    [k \in 1 .. (IF chunks < Len(all_embeddings) THEN chunks ELSE Len(all_embeddings))
        |-> [chunkIndex |-> k - 1, content |-> k - 1, embedding |-> all_embeddings[k]]]

\* chunks_data is built and upsert_chunks_batch(chunks_data) called: every
\* entry has a chunk_id, so the call returns (len(chunks_data), 0) or raises
\* at a commit
AlnStore(raises) ==
    /\ aln.pc = "store"
    /\ LET chunks_data == ZipChunks(aln.chunks, aln.all_embeddings)
       IN  aln' = IF raises /\ chunks_data # << >>
                  THEN [aln EXCEPT !.pc = "raised", !.chunks_data = chunks_data]
                  ELSE [aln EXCEPT
                          !.pc = "done", !.chunks_data = chunks_data,
                          !.persisted = {chunks_data[k] : k \in 1 .. Len(chunks_data)},
                          !.successful = Len(chunks_data), !.failed = 0]
    /\ UNCHANGED now
    /\ UNCHANGED cacheVars
    /\ UNCHANGED rlVars
    /\ UNCHANGED upVars
    /\ UNCHANGED ansVars
    /\ UNCHANGED embVars
    /\ UNCHANGED rtvVars
    /\ UNCHANGED chkVars
    /\ UNCHANGED idVars
    /\ UNCHANGED ingVars
    /\ UNCHANGED rlcVars
    /\ UNCHANGED cuVars
    /\ UNCHANGED qryVars
    /\ UNCHANGED evlVars

AlnInit == aln = AlnNone

AlnIdle == aln = AlnNone

InitCache == now = 0 /\ CacheInit /\ RLIdle /\ UpIdleInit /\ AnsInit /\ EmbIdle /\ RtvIdle /\ ChkIdle
    /\ IdIdle
    /\ IngIdle
    /\ RLWIdle
    /\ CuIdle
    /\ QryIdle
    /\ EvlIdle
    /\ AlnIdle

NextCache ==
    \/ \E a \in CacheArgs : CacheGet(a[1], a[2])
    \/ \E a \in CacheArgs, v \in Values : CacheSet(a[1], v, a[2])
    \/ CacheClear
    \/ CacheTick

SpecCache == InitCache /\ [][NextCache]_vars

InitRL == now = 0 /\ RLInit /\ CacheIdle /\ UpIdleInit /\ AnsInit /\ EmbIdle /\ RtvIdle /\ ChkIdle
    /\ IdIdle
    /\ IngIdle
    /\ RLWIdle
    /\ CuIdle
    /\ QryIdle
    /\ EvlIdle
    /\ AlnIdle

NextRL ==
    \/ \E u \in UserIds, fault \in StoreFaults : RLCheck(u, fault)
    \/ RLTick

SpecRL == InitRL /\ [][NextRL]_vars

InitUpsert == now = 0 /\ UpInit /\ CacheIdle /\ RLIdle /\ AnsInit /\ EmbIdle /\ RtvIdle /\ ChkIdle
    /\ IdIdle
    /\ IngIdle
    /\ RLWIdle
    /\ CuIdle
    /\ QryIdle
    /\ EvlIdle
    /\ AlnIdle

NextUpsert ==
    \/ \E chunks \in SeqsUpTo(ChunkChoices, MaxChunks) : UpsertCall(chunks)
    \/ \E ok \in BOOLEAN : UpsertLoop(ok)
    \/ \E ok \in BOOLEAN : UpsertFinish(ok)

SpecUpsert == InitUpsert /\ [][NextUpsert]_vars

InitAnswer == now = 0 /\ AnsInit /\ RLInit /\ CacheIdle /\ UpIdleInit /\ EmbIdle /\ RtvIdle /\ ChkIdle
    /\ IdIdle
    /\ IngIdle
    /\ RLWIdle
    /\ CuIdle
    /\ QryIdle
    /\ EvlIdle
    /\ AlnIdle

NextAnswer ==
    \/ \E q \in AnswerQueries, use_rag \in BOOLEAN, u \in AnswerUsers,
          delay \in 0 .. MaxDelay :
          AnswerRequest(q, use_rag, u, delay)
    \/ \E outcome \in RetrievalOutcomes : AnswerRetrieve(outcome)
    \/ \E fault \in StoreFaults : AnswerRateLimit(fault)
    \/ \E fault \in {"none", "read"} : AnswerCacheCheck(fault)
    \/ AnswerPrompt
    \/ \E outcome \in GenerateOutcomes : AnswerGenerate(outcome)
    \/ \E fault \in {"none", "write"} : AnswerCacheWrite(fault)

SpecAnswer == InitAnswer /\ [][NextAnswer]_vars

InitEmbed ==
    now = 0 /\ EmbIdle /\ CacheIdle /\ RLIdle /\ UpIdleInit /\ AnsInit /\ RtvIdle
    /\ ChkIdle
    /\ IdIdle
    /\ IngIdle
    /\ RLWIdle
    /\ CuIdle
    /\ QryIdle
    /\ EvlIdle
    /\ AlnIdle

NextEmbed ==
    \/ \E fn \in EmbFns, texts \in EmbTexts, retry_count \in RetryCounts :
          EmbedCall(fn, texts, retry_count)
    \/ \E outcome \in {"ok"} \cup ProviderErrors : EmbedAttempt(outcome)
    \/ EmbedLoopEnd

SpecEmbed == InitEmbed /\ [][NextEmbed]_vars

InitRetrieve ==
    now = 0 /\ RtvInit /\ CacheIdle /\ RLIdle /\ UpIdleInit /\ AnsInit /\ EmbIdle
    /\ ChkIdle
    /\ IdIdle
    /\ IngIdle
    /\ RLWIdle
    /\ CuIdle
    /\ QryIdle
    /\ EvlIdle
    /\ AlnIdle

NextRetrieve ==
    \/ \E qv \in QueryEmbeddings, top_k \in TopKChoices, filters \in FilterChoices :
          SearchCall(qv, top_k, filters)
    \/ \E embedded \in {Nothing} \cup {Some(v) : v \in QueryEmbeddings},
          top_k \in TopKArgs, filters \in RetrieveFilters, min_score \in MinScoreArgs :
          RetrieveCall(embedded, top_k, filters, min_score)
    \/ \E results \in SeqsUpTo(ContextResults, MaxResults), max_length \in MaxLengthArgs :
          BuildContextCall(results, max_length)

SpecRetrieve == InitRetrieve /\ [][NextRetrieve]_vars

InitChunk ==
    now = 0 /\ ChkInit /\ CacheIdle /\ RLIdle /\ UpIdleInit /\ AnsInit /\ EmbIdle
    /\ RtvIdle
    /\ IdIdle
    /\ IngIdle
    /\ RLWIdle
    /\ CuIdle
    /\ QryIdle
    /\ EvlIdle
    /\ AlnIdle

NextChunk == ChunkCall

SpecChunk == InitChunk /\ [][NextChunk]_vars

InitIds ==
    now = 0 /\ IdInit /\ CacheIdle /\ RLIdle /\ UpIdleInit /\ AnsInit /\ EmbIdle
    /\ RtvIdle /\ ChkIdle
    /\ IngIdle
    /\ RLWIdle
    /\ CuIdle
    /\ QryIdle
    /\ EvlIdle
    /\ AlnIdle

NextIds == GenerateCall

SpecIds == InitIds /\ [][NextIds]_vars

InitIngest ==
    now = 0 /\ IngInit /\ CacheIdle /\ RLIdle /\ UpIdleInit /\ AnsInit /\ EmbIdle
    /\ RtvIdle /\ ChkIdle /\ IdIdle
    /\ RLWIdle
    /\ CuIdle
    /\ QryIdle
    /\ EvlIdle
    /\ AlnIdle

NextIngest ==
    \/ \E w \in Workers, fault \in BOOLEAN : IngestLoop(w, fault)
    \/ \E w \in Workers, chunks \in 0 .. MaxIngestChunks :
          \E outcome \in WorkOutcomes(chunks) : IngestWork(w, chunks, outcome)
    \/ \E w \in Workers, outcome \in {"ok", "hash", "status"} :
          IngestSetCompleted(w, outcome)
    \/ \E w \in Workers, fault \in BOOLEAN : IngestExcept(w, fault)

SpecIngest == InitIngest /\ [][NextIngest]_vars

InitRLConcurrent ==
    now = 0 /\ RLInit /\ RLWInit /\ CacheIdle /\ UpIdleInit /\ AnsInit /\ EmbIdle
    /\ RtvIdle /\ ChkIdle /\ IdIdle /\ IngIdle
    /\ CuIdle
    /\ QryIdle
    /\ EvlIdle
    /\ AlnIdle

NextRLConcurrent ==
    \/ \E w \in Workers, user_id \in ConcurrentUserIds : RLRead(w, user_id)
    \/ \E w \in Workers : RLDecide(w)
    \/ RLTick

SpecRLConcurrent == InitRLConcurrent /\ [][NextRLConcurrent]_vars

InitConcurrentUpsert ==
    now = 0 /\ CuInit /\ CacheIdle /\ RLIdle /\ UpIdleInit /\ AnsInit /\ EmbIdle
    /\ RtvIdle /\ ChkIdle /\ IdIdle /\ IngIdle /\ RLWIdle
    /\ QryIdle
    /\ EvlIdle
    /\ AlnIdle

NextConcurrentUpsert == \E w \in Workers, ok \in BOOLEAN : WriterCommit(w, ok)

SpecConcurrentUpsert == InitConcurrentUpsert /\ [][NextConcurrentUpsert]_vars

InitQuery ==
    now = 0 /\ QryInit /\ CacheIdle /\ RLIdle /\ UpIdleInit /\ AnsInit /\ EmbIdle
    /\ RtvIdle /\ ChkIdle /\ IdIdle /\ IngIdle /\ RLWIdle /\ CuIdle
    /\ EvlIdle
    /\ AlnIdle

NextQuery ==
    \/ \E request \in QueryRequests, error \in {Nothing} \cup {Some(e) : e \in ErrorMessages} :
          Query(request, error)
    \/ QueryTick
    \/ Delete("d1", 0)
    \/ CollectionUpsert(1, "d1", 2)

SpecQuery == InitQuery /\ [][NextQuery]_vars

InitDelete ==
    now = 0 /\ DelInit /\ CacheIdle /\ RLIdle /\ UpIdleInit /\ AnsInit /\ EmbIdle
    /\ RtvIdle /\ ChkIdle /\ IdIdle /\ IngIdle /\ RLWIdle /\ CuIdle
    /\ EvlIdle
    /\ AlnIdle

NextDelete == \E document_id \in {"d1", "d2", "d3"}, failing \in 0 .. 3 : Delete(document_id, failing)

SpecDelete == InitDelete /\ [][NextDelete]_vars

InitEventLoop ==
    now = 0 /\ EvlInit /\ CacheIdle /\ RLIdle /\ UpIdleInit /\ AnsInit /\ EmbIdle
    /\ RtvIdle /\ ChkIdle /\ IdIdle /\ IngIdle /\ RLWIdle /\ CuIdle /\ QryIdle
    /\ AlnIdle

NextEventLoop ==
    \/ \E retry_count \in RetryCounts : EvlEmbedCall(retry_count)
    \/ \E outcome \in {"ok"} \cup ProviderErrors : EvlEmbedAttempt(outcome)
    \/ EvlEmbedWake
    \/ EvlOtherStep
    \/ EvlTick

SpecEventLoop == InitEventLoop /\ [][NextEventLoop]_vars

\* search and retrieve over collections that hold chunks whose embedding is
\* the zero vector, also with the zero vector for a query
ZeroNormQueries == {<<0, 0>>, <<1, 0>>}

ZeroNormChunks ==
    {StoredChunk(<<0, 0>>, "maize"), StoredChunk(<<1, 0>>, "maize"),
     StoredChunk(<<1, 1>>, "maize"), StoredChunk(<<0, 1>>, "rice")}

InitZeroNorm ==
    now = 0 /\ rtv \in {RtvNone(store) : store \in SeqsUpTo(ZeroNormChunks, MaxDocs)}
    /\ CacheIdle /\ RLIdle /\ UpIdleInit /\ AnsInit /\ EmbIdle
    /\ ChkIdle
    /\ IdIdle
    /\ IngIdle
    /\ RLWIdle
    /\ CuIdle
    /\ QryIdle
    /\ EvlIdle
    /\ AlnIdle

NextZeroNorm ==
    \/ \E qv \in ZeroNormQueries, top_k \in TopKChoices, filters \in FilterChoices :
          SearchCall(qv, top_k, filters)
    \/ \E embedded \in {Some(v) : v \in ZeroNormQueries},
          top_k \in TopKArgs, filters \in RetrieveFilters, min_score \in MinScoreArgs :
          RetrieveCall(embedded, top_k, filters, min_score)

SpecZeroNorm == InitZeroNorm /\ [][NextZeroNorm]_vars

InitAlign ==
    now = 0 /\ AlnInit /\ CacheIdle /\ RLIdle /\ UpIdleInit /\ AnsInit /\ EmbIdle
    /\ RtvIdle /\ ChkIdle /\ IdIdle /\ IngIdle /\ RLWIdle /\ CuIdle
    /\ QryIdle
    /\ EvlIdle

NextAlign ==
    \/ \E n \in 1 .. MaxAlignChunks : AlnChunk(n)
    \/ \E returned \in SUBSET (1 .. embedding_batch_size), raises \in BOOLEAN :
          AlnEmbedBatch(returned, raises)
    \/ \E raises \in BOOLEAN : AlnStore(raises)

SpecAlign == InitAlign /\ [][NextAlign]_vars

\* ======================================================== QueryCache claims
\* the entry of the cache with the given key
Entry(c, k) == c[IndexOf(c, k)]

C3_Expiry ==
    (lastOp.kind = "get" /\ lastOp.present) =>
        IF lastOp.age > ttl_seconds
        THEN /\ ~lastOp.hit
             /\ lastOp.v = None
             /\ lastOp.key \notin Keys(cache)
             /\ lastOp.evicted = {lastOp.key}
             /\ Len(cache) = lastOp.sizeBefore - 1
             /\ misses = lastOp.missesBefore + 1
        ELSE /\ lastOp.hit
             /\ lastOp.v = lastOp.stored
             /\ cache[Len(cache)].key = lastOp.key
             /\ Len(cache) = lastOp.sizeBefore

C3_Witness ==
    /\ lastOp.kind = "get"
    /\ lastOp.present
    /\ lastOp.age > ttl_seconds
    /\ lastOp.sizeBefore = 2

\* C4: a get directly after a set of the same query and filters, less than
\* ttl_seconds later, returns the value that was set.
C4_RoundTrip ==
    (lastOp.kind = "get" /\ lastOp.afterSet /\ lastOp.t - lastOp.setT < ttl_seconds)
        => (lastOp.hit /\ lastOp.v = lastOp.setV)

C4_Witness ==
    /\ lastOp.kind = "get"
    /\ lastOp.afterSet
    /\ lastOp.t - lastOp.setT < ttl_seconds
    /\ lastOp.v = "v2"
    /\ opCount = MaxOps

\* C5: the cache never holds more than maxsize entries.
C5_SizeBound == Len(cache) <= maxsize

C5_Witness ==
    /\ lastOp.kind = "set"
    /\ lastOp.evicted # {}
    /\ Len(cache) = maxsize
    /\ maxsize = 2

\* ====================================================== rate limiter claims
\* C1: with the store reachable, the n-th call of a user in an hour bucket is
\* allowed exactly when n <= max_requests_per_hour, and the first call of a
\* bucket leaves requestsThisHour = 1 and currentHour = that bucket.
C1_Quota ==
    (rlLast.uid # None /\ rlBucket[rlLast.uid].faults = 0) =>
        /\ rlLast.allowed = (rlLast.nth <= max_requests_per_hour)
        /\ rlLast.nth = 1 =>
              /\ rate_limits[rlLast.uid].exists
              /\ rate_limits[rlLast.uid].requestsThisHour = 1
              /\ rate_limits[rlLast.uid].currentHour = rlLast.hour

\* the first call of a new bucket, after the quota of the bucket before was
\* used up
C1_Witness ==
    /\ rlLast.uid # None
    /\ rlBucket[rlLast.uid].faults = 0
    /\ rlLast.nth = 1
    /\ rlLast.allowed
    /\ rlLast.before[rlLast.uid].exists
    /\ rlLast.before[rlLast.uid].requestsThisHour = max_requests_per_hour
    /\ rlLast.before[rlLast.uid].currentHour # rlLast.hour

\* C12: a call of check_rate_limit during which the store raises, on the read
\* of the record or on the write that creates or updates it, returns True and
\* raises nothing.
C12_FailOpen ==
    (rlLast.uid # None /\ rlLast.fault # "none") =>
        /\ rlLast.allowed
        /\ ~rlLast.raised

\* the store fails on the read for a user whose quota of the hour is used up
C12_Witness ==
    /\ rlLast.uid # None
    /\ rlLast.fault = "read"
    /\ rlLast.allowed
    /\ rlLast.before[rlLast.uid].exists
    /\ rlLast.before[rlLast.uid].currentHour = rlLast.hour
    /\ rlLast.before[rlLast.uid].requestsThisHour >= max_requests_per_hour

\* C13: a call that check_rate_limit rejects leaves every rate-limit record,
\* the rejected user's and all others, exactly as it was before the call.
C13_RejectNoMutation ==
    (rlLast.uid # None /\ ~rlLast.allowed) =>
        /\ rate_limits = rlLast.before
        /\ rlLast.before[rlLast.uid].exists
        /\ rlLast.before[rlLast.uid].currentHour = rlLast.hour
        /\ rlLast.before[rlLast.uid].requestsThisHour >= max_requests_per_hour

\* a rejection while another user has a record of their own
C13_Witness ==
    /\ rlLast.uid # None
    /\ ~rlLast.allowed
    /\ \A u \in Uids : rate_limits[u].exists
    /\ rate_limits[rlLast.uid].totalRequests > max_requests_per_hour

\* ===================================================== batch upsert claims
RECURSIVE Flatten(_)
Flatten(ss) == IF ss = << >> THEN << >> ELSE Head(ss) \o Flatten(Tail(ss))

CommittedWrites(cs) == Flatten([i \in 1 .. Len(cs) |-> cs[i].writes])

CeilDiv(n, d) == (n + d - 1) \div d

AllCarryId(chunks) == \A i \in 1 .. Len(chunks) : chunks[i].chunk_id # None

\* C6: n chunks that all carry an id are committed in ceil(n / L) commits, in
\* input order, each of exactly L writes but the last, which holds the rest;
\* no commit is empty or longer than L.
C6_CommitBatching ==
    /\ \A i \in 1 .. Len(up.commits) :
          /\ Len(up.commits[i].writes) >= 1
          /\ Len(up.commits[i].writes) <= firestore_batch_size
    /\ (up.pc = "returned" /\ AllCarryId(up.chunks_data)) =>
          LET n == Len(up.chunks_data)
              c == Len(up.commits)
          IN  /\ c = CeilDiv(n, firestore_batch_size)
              /\ CommittedWrites(up.commits) = up.chunks_data
              /\ \A i \in 1 .. c - 1 :
                    Len(up.commits[i].writes) = firestore_batch_size
              /\ c >= 1 => Len(up.commits[c].writes)
                              = n - (c - 1) * firestore_batch_size

C6_Witness ==
    /\ up.pc = "returned"
    /\ AllCarryId(up.chunks_data)
    /\ Len(up.chunks_data) = 4
    /\ firestore_batch_size = 3
    /\ Len(up.commits) = 2

\* C7: when the k-th commit fails, the writes of commits 1 .. k-1 are in the
\* store, nothing else of this call is, no commit follows the failed one and
\* the call ends by raising.
C7_PartialFailure ==
    /\ \A i \in 1 .. Len(up.commits) - 1 : up.commits[i].ok
    /\ (\E i \in 1 .. Len(up.commits) : ~up.commits[i].ok) <=> up.pc = "raised"
    /\ up.pc = "raised" =>
          LET k == Len(up.commits)
          IN  /\ up.result = "raise"
              /\ vectorChunks
                    = ApplyWrites(up.before,
                                  CommittedWrites(SubSeq(up.commits, 1, k - 1)))

\* the third commit fails after two that wrote to the store
C7_Witness ==
    /\ up.pc = "raised"
    /\ Len(up.commits) = 3
    /\ vectorChunks # up.before
    /\ \E i \in ChunkIds : up.before[i] = "old" /\ vectorChunks[i] = "old"
                           /\ \E j \in 1 .. Len(up.commits[3].writes) :
                                 up.commits[3].writes[j].chunk_id = i

\* ========================================================== /answer claims
\* the place of a stage in the order CacheCheck, RateLimitCheck, Retrieve,
\* PromptSelect, Generate, CacheWrite
StageRank(stage) ==
    CASE stage = "CacheCheck" -> 1
      [] stage = "RateLimitCheck" -> 2
      [] stage = "Retrieve" -> 3
      [] stage = "PromptSelect" -> 4
      [] stage = "Generate" -> 5
      [] stage = "CacheWrite" -> 6

\* C8: a request passes its stages in the order CacheCheck, RateLimitCheck,
\* Retrieve, PromptSelect, Generate, CacheWrite; a request answered from the
\* response cache has consulted nothing but the cache, leaves the rate-limit
\* records as they were and reports a generation time of 0.
C8_StageOrder ==
    /\ \A i, j \in 1 .. Len(req.trace) :
          i < j => StageRank(req.trace[i]) < StageRank(req.trace[j])
    /\ (req.pc = "done" /\ req.result # Nothing /\ req.result[1].source = "cache") =>
          /\ req.trace = <<"CacheCheck">>
          /\ rate_limits = req.rlBefore
          /\ req.result[1].generation_time_ms = Some(0)

\* the conditions under which the grounded prompt is called for
RagWarranted(r) ==
    /\ r.use_rag
    /\ r.retrieval # Nothing
    /\ ~r.retrieval[1].raised
    /\ r.retrieval[1].results # << >>
    /\ r.retrieval[1].results[1].score >= GeminiFallbackThreshold

\* C9: once a prompt is chosen (the request was neither served from the cache
\* nor rate limited), it is the grounded prompt exactly when RAG was asked
\* for, retrieval succeeded and its top result scores at or above the
\* fallback threshold; otherwise the direct prompt is used, and whenever the
\* provider answers, that answer is returned under the matching source.
C9_FallbackDecision ==
    /\ req.prompt # None =>
          (req.prompt = "rag" <=> RagWarranted(req))
    /\ (req.pc = "done" /\ req.generated \in Answers) =>
          /\ req.result[1].answer = req.generated
          /\ req.result[1].source
                = IF RagWarranted(req) THEN "gemini_with_rag" ELSE "gemini_direct"

\* C10: generate_answer always returns; when the provider call or the
\* extraction of its text fails, and whenever the source is "error", the
\* result carries the apology and the response cache is as it was before
\* the request; store faults alone never lead to "error".
C10_ErrorConversion ==
    req.pc = "done" =>
        /\ req.ret = "return"
        /\ req.result # Nothing
        /\ req.generated \in {"raise", "no_text"} =>
              req.result[1].source = "error"
        /\ req.result[1].source = "error" =>
              /\ req.generated \in {"raise", "no_text"}
              /\ req.result[1].answer = ApologyText
              /\ gemini_cache = req.cacheBefore
              /\ \A i \in 1 .. Len(req.trace) : req.trace[i] # "CacheWrite"

\* the provider fails for a query whose earlier answer is still stored
C10_Witness ==
    /\ req.pc = "done"
    /\ req.generated = "raise"
    /\ req.result[1].source = "error"
    /\ gemini_cache[CacheKeyOf(req.query)].exists

\* the stages a request has passed so far
Stages == {req.trace[i] : i \in 1 .. Len(req.trace)}

\* C11: once the rate limiter has rejected a request, generate_answer has
\* returned (not raised) the throttling message under source "rate_limit",
\* the provider was not called and the response cache was neither read nor
\* written.
C11_RejectionTerminal ==
    req.within_limit = Some(FALSE) =>
        /\ req.pc = "done"
        /\ req.ret = "return"
        /\ req.result # Nothing
        /\ req.result[1].source = "rate_limit"
        /\ req.result[1].answer = ThrottleText
        /\ req.generated = None
        /\ Stages \cap {"CacheCheck", "PromptSelect", "Generate", "CacheWrite"} = {}
        /\ gemini_cache = req.cacheBefore

\* a request is rejected although a fresh answer to its query is cached
C11_Witness ==
    /\ req.within_limit = Some(FALSE)
    /\ req.pc = "done"
    /\ gemini_cache[CacheKeyOf(req.query)].exists
    /\ now - gemini_cache[CacheKeyOf(req.query)].cachedAt <= CacheTtl

\* ==================================================== embedding client claims
\* the provider calls of the running call, in order
EmbCalls == SelectSeq(emb.events, LAMBDA ev : ev.kind = "call")

\* C14: for a non-empty batch and retry_count >= 1, the k-th provider call
\* is attempt k - 1 and there are at most retry_count of them; a successful
\* call is the last event and its vectors are what is returned; a failed
\* attempt a that is not the last one allowed is followed by a sleep of 2^a
\* and then by the next attempt, and there is no other sleep; the call raises
\* exactly when retry_count attempts have all failed, with the error of the
\* last attempt and without a value.
C14_RetryPolicy ==
    (emb.texts # << >> /\ emb.retry_count >= 1) =>
        LET ev == emb.events
            n == Len(ev)
        IN  /\ Len(EmbCalls) <= emb.retry_count
            /\ \A k \in 1 .. Len(EmbCalls) : EmbCalls[k].attempt = k - 1
            /\ \A i \in 1 .. n :
                  (ev[i].kind = "call" /\ ev[i].outcome = "ok") =>
                      /\ i = n
                      /\ emb.pc = "returned"
                      /\ emb.result = Some(Vectors(emb.texts, ev[i].attempt))
            /\ \A i \in 1 .. n :
                  (ev[i].kind = "call" /\ ev[i].outcome # "ok") =>
                      IF ev[i].attempt < emb.retry_count - 1
                      THEN /\ i < n
                           /\ ev[i + 1] = SleepEvent(ev[i].attempt, 2 ^ ev[i].attempt)
                           /\ i + 1 < n => /\ ev[i + 2].kind = "call"
                                           /\ ev[i + 2].attempt = ev[i].attempt + 1
                      ELSE /\ i = n
                           /\ emb.pc = "raised"
                           /\ emb.error = ev[i].outcome
            /\ \A i \in 1 .. n :
                  ev[i].kind = "sleep" =>
                      /\ i > 1
                      /\ ev[i - 1].kind = "call"
                      /\ ev[i - 1].outcome # "ok"
            /\ emb.pc = "raised" =>
                  /\ Len(EmbCalls) = emb.retry_count
                  /\ \A k \in 1 .. Len(EmbCalls) : EmbCalls[k].outcome # "ok"
                  /\ emb.result = Nothing
            /\ emb.pc = "returned" =>
                  /\ n > 0
                  /\ ev[n].kind = "call"
                  /\ ev[n].outcome = "ok"

\* three attempts fail with different errors, after sleeps of 1 and 2
C14_Witness ==
    /\ emb.pc = "raised"
    /\ emb.retry_count = 3
    /\ Len(emb.events) = 5
    /\ emb.events[1].outcome = "e1"
    /\ emb.events[2].seconds = 1
    /\ emb.events[4].seconds = 2
    /\ emb.error = "e2"

\* =============================================== search and retrieval claims
\* the candidates search fetched and scored, in the order of the collection
Candidates ==
    Scored(rtv.store, Fetch(rtv.store, rtv.filters), rtv.query_vector)

RECURSIVE IsSubSeq(_, _)
IsSubSeq(a, b) ==
    IF a = << >> THEN TRUE
    ELSE IF b = << >> THEN FALSE
    ELSE IF Head(a) = Head(b) THEN IsSubSeq(Tail(a), Tail(b))
    ELSE IsSubSeq(a, Tail(b))

\* C16: every result that retrieve returns scores at least the caller's
\* min_score, or the configured similarity threshold when the caller gave
\* none; the results are in the order search ranked them; and there are at
\* most top_k of them (the caller's top_k, or the configured one when the
\* caller gave none).
C16_ScoreThreshold ==
    (rtv.op = "retrieve" /\ ~rtv.raised) =>
        LET minScore == IF rtv.arg_min_score = Nothing THEN SimilarityThreshold
                        ELSE rtv.arg_min_score[1]
            topK == IF rtv.arg_top_k = Nothing THEN TopKResults
                    ELSE rtv.arg_top_k[1]
            res == rtv.results
        IN  /\ \A i \in 1 .. Len(res) : res[i].score >= minScore
            /\ IsSubSeq(res, rtv.searched)
            /\ \A i, j \in 1 .. Len(res) : i < j => res[i].score >= res[j].score
            /\ Len(res) <= topK

\* whether t occurs in s
Contains(s, t) ==
    \E k \in 1 .. Len(s) - Len(t) + 1 : SubSeq(s, k, k + Len(t) - 1) = t

StartsWith(s, t) == Len(t) <= Len(s) /\ SubSeq(s, 1, Len(t)) = t

EndsWith(s, t) == Len(t) <= Len(s) /\ SubSeq(s, Len(s) - Len(t) + 1, Len(s)) = t

\* the summed length of the first n of the given strings
RECURSIVE LengthOfFirst(_, _)
LengthOfFirst(parts, n) ==
    IF n = 0 THEN 0 ELSE Len(parts[n]) + LengthOfFirst(parts, n - 1)

\* whether part is a complete block for result: the bracketed header with
\* the source, the page, type and tags that the result has, and the score,
\* then the whole content on lines of its own
IsWholeBlock(part, result) ==
    LET m == result.metadata
        header == SubSeq(part, 1, Len(part) - Len(result.content) - 2)
        Tagged(label, value) ==
            (value # Nothing /\ value # Some("")) => Contains(header, label \o value[1])
    IN  /\ EndsWith(part, "]\n" \o result.content \o "\n")
        /\ StartsWith(header, "[Source: " \o GetOr(m.source, "Unknown"))
        /\ Tagged("Page: ", m.pageNumber)
        /\ Tagged("Type: ", m.documentType)
        /\ Tagged("Crop: ", m.crop)
        /\ Tagged("Region: ", m.region)
        /\ EndsWith(header, "Relevance: " \o ScoreText(result.score) \o "]")

IsOversizedParagraph(c, max_chars) ==
    /\ Len(c.parts) <= 2
    /\ Len(c.parts[Len(c.parts)]) > max_chars
    /\ Len(c.parts) = 2 => c.chunkIndex > 0

C19_SizeLimit ==
    chk.done =>
        \A i \in 1 .. Len(chk.chunks) : chk.chunks[i].char_count <= chk.max_chars + 50

\* the chunk before chunk i belongs to the same text item
FollowsInItem(chunks, i) == i > 1 /\ chunks[i].item = chunks[i - 1].item

\* chunk i begins with a fragment of at most overlap_chars characters that
\* ends the text of the chunk before it, followed by the paragraph whose
\* arrival flushed that chunk
BeginsWithOverlap(chunks, i, max_chars, overlap_chars) ==
    LET c == chunks[i]
        prev == chunks[i - 1]
    IN  /\ Len(c.parts) >= 2
        /\ Len(c.parts[1]) <= overlap_chars
        /\ Len(c.parts[1]) > 0
        /\ EndsWith(prev.text, c.parts[1])
        /\ StartsWith(c.text, c.parts[1] \o "\n\n" \o c.parts[2])
        /\ prev.char_count + Len(c.parts[2]) > max_chars

C21_ChunkIds ==
    cid.done =>
        /\ cid.again = cid.id
        /\ (cid.document_id = cid.other_document_id /\ cid.chunk_index # cid.other_index)
              => cid.id # cid.other_id
        /\ (cid.document_id = cid.other_document_id /\ cid.chunk_index < cid.other_index)
              => StrLess(cid.id, cid.other_id)
        /\ Len(cid.id) >= Len(cid.document_id) + 7 + 4
        /\ (cid.document_id = "doc-123" /\ cid.chunk_index = 5)
              => cid.id = "doc-123_chunk_0005"
        /\ cid.chunk_index = 1234 => EndsWith(cid.id, "_chunk_1234")

\* the greatest index that the padding renders in 4 digits
MaxPadded == 9999

\* C21, amended: as stated, with the order claimed for indexes that render
\* in the same number of digits, so for all indexes up to 9999 and for all
\* from 10000 to 99999; an id of five digits orders before one of four
\* digits that begins with a greater digit.
C21_ChunkIdsOrderedWithinWidth ==
    cid.done =>
        /\ cid.again = cid.id
        /\ (cid.document_id = cid.other_document_id /\ cid.chunk_index # cid.other_index)
              => cid.id # cid.other_id
        /\ ( /\ cid.document_id = cid.other_document_id
             /\ cid.chunk_index < cid.other_index
             /\ (cid.other_index <= MaxPadded \/ cid.chunk_index > MaxPadded) )
              => StrLess(cid.id, cid.other_id)
        /\ ( /\ cid.document_id = cid.other_document_id
             /\ cid.chunk_index <= MaxPadded
             /\ cid.other_index > MaxPadded
             /\ cid.chunk_index >= 2000 )
              => StrLess(cid.other_id, cid.id)
        /\ Len(cid.id) >= Len(cid.document_id) + 7 + 4
        /\ (cid.document_id = "doc-123" /\ cid.chunk_index = 5)
              => cid.id = "doc-123_chunk_0005"
        /\ cid.chunk_index = 1234 => EndsWith(cid.id, "_chunk_1234")

\* the cid of indexes 5 and 1234 of doc-123, in this order
C21_Witness ==
    /\ cid.done
    /\ cid.id = "doc-123_chunk_0005"
    /\ cid.other_id = "doc-123_chunk_1234"
    /\ StrLess(cid.id, cid.other_id)

\* ------------------------------------------- claims about batch ingestion

\* C22: batch_ingest attempts every document of its work list exactly once,
\* in order; a failure in one document is recorded and does not keep the
\* following documents from being ingested; the summary satisfies
\* processed + failed = total_documents.
C22_LoopContinues ==
    \A w \in Workers :
        LET r == ing[w]
        IN  /\ r.attempts = SubSeq(r.documents, 1, r.position)
            /\ Len(r.results) = r.successful + r.failed
            /\ r.failed = Cardinality({i \in 1 .. Len(r.results) : r.results[i] = "failed"})
            /\ r.pc = "loop" => Len(r.results) = r.position
            /\ r.pc = "done" =>
                  /\ r.attempts = r.documents
                  /\ r.summary # Nothing
                  /\ r.summary[1].total_documents = Len(r.documents)
                  /\ r.summary[1].processed + r.summary[1].failed
                        = r.summary[1].total_documents

\* the first document of two failed, with the exception of the status
\* update reaching batch_ingest, and the second was ingested
C22_Witness ==
    /\ ing[1].pc = "done"
    /\ ing[1].documents = <<"d1", "d2">>
    /\ ing[1].results = <<"failed", "">>
    /\ document_status["d1"].status = "processing"
    /\ document_status["d2"].status = "completed"
    /\ ing[1].summary = Some([total_documents |-> 2, processed |-> 1, failed |-> 1])

\* ------------------------------------------- claims about chunks and pages

\* the paragraphs of an item's text as the chunker takes them: stripped,
\* the empty ones left out
RECURSIVE StripAll(_)
StripAll(paragraphs) ==
    IF paragraphs = << >> THEN << >>
    ELSE LET para == Strip(Head(paragraphs))
         IN  (IF para = "" THEN << >> ELSE <<para>>) \o StripAll(Tail(paragraphs))

ItemParagraphs(text) == StripAll(SplitParagraphs(text, 1))

\* C23: each chunk carries the page number of the one text item that all
\* of its text comes from; no chunk combines text of two items, the overlap
\* fragment is never carried from one item into the next, every item with
\* non-whitespace text contributes at least one chunk with its page number,
\* and empty or whitespace-only items contribute none.
C23_PagesPreserved ==
    chk.done =>
        LET chunks == chk.chunks
            items == chk.text_items
        IN  /\ \A i \in 1 .. Len(chunks) :
                   LET c == chunks[i]
                       paragraphs == ItemParagraphs(items[c.item].text)
                   IN  /\ c.item \in 1 .. Len(items)
                       /\ c.page = items[c.item].page
                       /\ c.text = Join(c.parts, "\n\n")
                       /\ \A k \in 1 .. Len(c.parts) :
                              \E n \in 1 .. Len(paragraphs) : EndsWith(paragraphs[n], c.parts[k])
                       /\ (i = 1 \/ chunks[i - 1].item # c.item) =>
                              c.parts = SubSeq(paragraphs, 1, Len(c.parts))
                       /\ i > 1 => chunks[i - 1].item <= c.item
            /\ \A k \in 1 .. Len(items) :
                   (Strip(items[k].text) # "") <=>
                       (\E i \in 1 .. Len(chunks) :
                            chunks[i].item = k /\ chunks[i].page = items[k].page)

\* items of pages 7, 5 and 3, the second of white space only: the chunks of
\* page 7 are followed by those of page 3, whose first chunk begins with the
\* item's first paragraph although an overlap was taken inside the first item
C23_Witness ==
    /\ chk.done
    /\ chk.text_items = PagedItems
    /\ chk.overlap_chars = 3
    /\ Len(chk.chunks) = 4
    /\ chk.chunks[2].page = 7
    /\ chk.chunks[2].text = "bcd\n\nefghijk"
    /\ chk.chunks[3].page = 3
    /\ chk.chunks[3].text = "lmnopqrstuvw"
    /\ \A i \in 1 .. 4 : chk.chunks[i].page # 5

\* --------------------------------- claims about the concurrent rate limiter

\* C24: for every user and every hour bucket the number of requests that
\* check_rate_limit allows never exceeds maxPerHour while the store is
\* reachable, also when calls for the same user from different workers
\* interleave between the read of the record and the later write.
C24_QuotaUnderConcurrency ==
    \A u \in Uids, h \in 0 .. MaxHour : rlGranted[u][h] <= max_requests_per_hour

\* ------------------------------------------ claims about the upsert totals

\* the chunks persisted by the commits of the call that went through
PersistedCount(cs) ==
    Len(Flatten([i \in 1 .. Len(cs) |-> IF cs[i].ok THEN cs[i].writes ELSE << >>]))

\* C28: every call of upsert_chunks_batch hands back the totals
\* (succeeded, failed): succeeded is the number of chunks the call persisted
\* and succeeded + failed the number of input chunks, chunks without an id
\* counting as failed and never written; also when a commit batch fails.
C28_TotalsReturned ==
    up.pc \in {"returned", "raised"} =>
        /\ up.pc = "returned"
        /\ up.result[1] = PersistedCount(up.commits)
        /\ up.result[1] + up.result[2] = Len(up.chunks_data)
        /\ \A i \in 1 .. Len(up.commits) :
               \A k \in 1 .. Len(up.commits[i].writes) :
                   up.commits[i].writes[k].chunk_id # None

\* ------------------------------------------ claims about concurrent upserts

\* the documents that the writers' commits have written so far
WrittenDocs ==
    UNION {{writers[w].committed[n] : n \in 1 .. Len(writers[w].committed)} : w \in Workers}

\* C25: after any number of upserts of chunks with the same id, one after
\* the other or interleaved from concurrent runs, the store holds exactly
\* one chunk with that id, whose content, embedding and metadata all come
\* from one single of those writes; chunk ids stay unique in the store.
C25_UpsertIdempotent ==
    /\ \A d \in chunkDocs : \A e \in chunkDocs : d.id = e.id => d = e
    /\ \A d \in chunkDocs :
           \E x \in WrittenDocs :
               /\ x.id = d.id
               /\ d.content = x.content
               /\ d.embedding = x.embedding
               /\ d.metadata = x.metadata
               /\ d.embeddingDim = Len(d.embedding)
    /\ \A x \in WrittenDocs : Cardinality({d \in chunkDocs : d.id = x.id}) = 1

\* both writers have written chunk c1, writer 1 twice, and the store holds
\* the one document of writer 2's write
C25_Witness ==
    /\ Len(writers[1].committed) = 2
    /\ \A n \in 1 .. 2 : writers[1].committed[n].id = "c1"
    /\ Len(writers[2].committed) = 1
    /\ writers[2].committed[1].id = "c1"
    /\ chunkDocs = {writers[2].committed[1]}

\* ---------------------------------------- claims about the document status

\* the last status write replaced a terminal status by the other one
TerminalReplaced ==
    /\ statusLog.before \in Terminal
    /\ statusLog.after \in Terminal
    /\ statusLog.before # statusLog.after

EmbedFailedRuns ==
    {w \in Workers : ing[w].pc \in {"loop", "done"} /\ ing[w].run.embed_failed}

C29_ContextLengthBound ==
    ( /\ rtv.op = "build_context"
      /\ rtv.arg_max_length # Nothing
      /\ rtv.arg_max_length[1] >= 1 )
        => Len(rtv.context) <= rtv.arg_max_length[1]

\* C30: retrieve uses the configured defaults only for parameters the caller
\* omitted: a supplied min_score, 0 included, is the value the results are
\* filtered against, and a supplied top_k is the value passed to search.
C30_SuppliedParametersHonoured ==
    (rtv.op = "retrieve") =>
        LET topK == IF rtv.arg_top_k = Nothing THEN TopKResults
                    ELSE rtv.arg_top_k[1]
            minScore == IF rtv.arg_min_score = Nothing THEN SimilarityThreshold
                        ELSE rtv.arg_min_score[1]
        IN  /\ rtv.top_k = topK
            /\ rtv.threshold = minScore
            /\ ~rtv.raised =>
                  /\ rtv.searched = Search(rtv.store, rtv.query_vector, topK, rtv.filters)
                  /\ rtv.results = SelectSeq(rtv.searched, LAMBDA r : r.score >= minScore)

\* ========================================================== /query claims
\* the filters of a request as a map
AsMap(filters) ==
    IF filters = Nothing THEN {} ELSE {filters[1][i] : i \in 1 .. Len(filters[1])}

\* whether two requests have equal normalized queries and equal parameters
SameQuery(r1, r2) ==
    /\ NormalizeQuery(r1.query) = NormalizeQuery(r2.query)
    /\ r1.top_k = r2.top_k
    /\ AsMap(r1.filters) = AsMap(r2.filters)
    /\ r1.min_score = r2.min_score

\* C31: a /query request that follows an answered request with the same
\* normalized query, top_k, filters (as maps) and min_score within the TTL is
\* a cache hit, and requests that differ in one of these address different
\* entries.
C31_QueryKeyNormalization ==
    /\ \A i, j \in 1 .. Len(qry) :
          ( /\ i < j
            /\ SameQuery(qry[i].request, qry[j].request)
            /\ ~qry[i].hit
            /\ qry[i].error = Nothing
            /\ qry[j].time - qry[i].time <= QueryCacheTtl )
            => qry[j].hit
    /\ \A r1, r2 \in QueryRequests :
          ~SameQuery(r1, r2) => QueryHashKey(r1) # QueryHashKey(r2)

\* ===================================================== /answer cache claims
\* the entry that the response cache held for the request's query when the
\* request arrived
EntryBefore == req.cacheBefore[NormalizeQuery(req.query)]

\* the request passed the rate limiter and read the response cache
ReachedCache ==
    /\ req.pc = "done"
    /\ req.within_limit = Some(TRUE)
    /\ req.cache_fault = "none"
    /\ \E i \in 1 .. Len(req.trace) : req.trace[i] = "CacheCheck"

ServedFromCache ==
    /\ req.response = Some([query |-> req.query, answer |-> EntryBefore.response,
                            source |-> "cache", chunks |-> req.chunks, cached |-> TRUE,
                            generation_time_ms |-> Some(0)])
    /\ \A i \in 1 .. Len(req.trace) : req.trace[i] # "Generate"

\* a miss: the provider is called, and the answer returned is the one it
\* generated (or the apology when it fails)
Regenerated ==
    /\ \E i \in 1 .. Len(req.trace) : req.trace[i] = "Generate"
    /\ req.response # Nothing
    /\ req.response[1].source # "cache"
    /\ req.response[1].cached = FALSE
    /\ req.generated \in Answers => req.response[1].answer = req.generated

\* C32: a generate_answer call for a query whose normalized form has an entry
\* written by an earlier successful generation returns that answer with
\* source cache and cached = true without calling the provider while the
\* entry is at most the TTL old, and is a miss that generates a fresh answer
\* once the entry is older.
C32_ResponseCacheRoundTrip ==
    (ReachedCache /\ EntryBefore.exists) =>
        IF now - EntryBefore.cachedAt <= CacheTtl
        THEN ServedFromCache
        ELSE Regenerated

\* C33: the failure response of /query does not depend on the internal
\* error: it contains no text of the exception, and two failures of the
\* retrieval that differ in their exception message get the same response.
C33_NoErrorDetail ==
    /\ \A i \in 1 .. Len(qry) :
          qry[i].error # Nothing =>
              /\ qry[i].response.status_code = 500
              /\ ~Contains(qry[i].response.detail, qry[i].error[1])
    /\ \A i, j \in 1 .. Len(qry) :
          (qry[i].error # Nothing /\ qry[j].error # Nothing)
              => qry[i].response = qry[j].response

\* ======================================================= event loop claims
\* C34: while embed_batch waits out a backoff interval it has yielded
\* control: the event loop is not executing it, and the other request can
\* take its steps during the wait.
C34_BackoffYields ==
    coro[Embedder].pc = "sleep" => running # Embedder

\* ================================================ delete_by_document_id
\* C35: a call of delete_by_document_id(d) that returns normally leaves no
\* chunk of d, leaves the chunks of the other documents as they were and
\* returns the number of chunks it deleted; no delete commit holds more than
\* the commit limit; a failed commit raises and leaves the earlier commits
\* applied.
C35_DeleteByDocument ==
    del.called =>
        /\ ~del.raised =>
              /\ del.remaining = 0
              /\ del.count = Some(del.matched)
              /\ Cardinality(Matching(collection, del.document_id)) = 0
        /\ del.others_kept
        /\ \A k \in 1 .. Len(del.commits) : del.commits[k] <= DeleteCommitEvery
        /\ del.attempted <= DeleteCommitEvery
        /\ del.raised =>
              /\ del.count = Nothing
              /\ del.remaining = del.matched - DeleteCommitEvery * Len(del.commits)
              /\ del.remaining > 0

\* a document of 1001 chunks is deleted in three commits; and a delete of
\* that document whose third commit fails keeps the first two
C35_Witness ==
    /\ del.called
    /\ del.matched = 1001
    /\ del.raised
    /\ del.commits = <<500, 500>>
    /\ del.attempted = 1
    /\ del.remaining = 1

\* whether a vector's norm is zero
ZeroNorm(v) == Dot(v, v) = 0

\* the call had a zero norm to divide by: the query vector's, or that of a
\* candidate's embedding
ZeroNormCase ==
    \/ ZeroNorm(rtv.query_vector)
    \/ \E i \in 1 .. Len(Candidates) : ZeroNorm(rtv.store[Candidates[i].chunkId].embedding)

\* C36: when the query vector or a candidate's embedding has norm zero, a
\* search that does not raise returns numbers for scores only, the score 0
\* for every candidate whose score divides by a zero norm, and at most top_k
\* results whose scores do not increase.
C36_ZeroNormVectors ==
    (rtv.op = "search" /\ rtv.top_k >= 0 /\ ZeroNormCase /\ ~rtv.raised) =>
        LET res == rtv.results
        IN  /\ \A i \in 1 .. Len(res) : res[i].score # NaN
            /\ \A i \in 1 .. Len(res) :
                  (ZeroNorm(rtv.query_vector) \/ ZeroNorm(rtv.store[res[i].chunkId].embedding))
                      => res[i].score = 0
            /\ Len(res) <= rtv.top_k
            /\ \A i, j \in 1 .. Len(res) :
                  (i < j /\ res[i].score # NaN /\ res[j].score # NaN)
                      => res[i].score >= res[j].score

StoredOf(document_id) == {c \in stored : c.documentId = document_id}

\* C38: once a run of ingest_single_document for a document has completed
\* with n chunks, and no other run of the document went on beside it, the
\* chunks stored with the document's id are the n chunks of this run, also
\* when an earlier run had produced more.
C38_ReingestionReplaces ==
    (statusLog.after = "completed" /\ ~statusLog.overlapped) =>
        LET r == ing[statusLog.worker]
        IN  (r.run.document_id = statusLog.document_id /\ r.run.written = "completed")
                => StoredOf(statusLog.document_id)
                       = ChunkWrites(statusLog.document_id, r.run.wrote)

\* C40: after any sequence of ingestion runs of a document, a status record
\* whose status is completed has no errorMessage left from an earlier
\* failure.
C40_CompletedHasNoError ==
    \A d \in IngestDocs :
        document_status[d].status = "completed" => document_status[d].errorMessage = ""

\* ============================================ embedding alignment claims
\* C39: when ingest_single_document has stored its chunks, every chunk
\* persisted carries the embedding computed from its own text, and every
\* chunk of the chunker is persisted or counted in failed, also when the
\* provider returned fewer vectors than texts for a batch.
C39_NoChunkDroppedOrMisaligned ==
    aln.pc = "done" =>
        /\ \A c \in aln.persisted : c.embedding = EmbeddingOf(c.content)
        /\ aln.chunks = Cardinality(aln.persisted) + aln.failed

====
